---- MODULE Spec2Model ----
(***************************************************************************)
(* The process-scheduling simulator of the Process-Visualizer scheduling   *)
(* tab (scheduling_tab.py, class SchedulingTab).                           *)
(*                                                                         *)
(* Times are Python floats in the source.  They are modelled as integer    *)
(* multiples of 1/TicksPerUnit of a time unit ("ticks"); such values and   *)
(* their sums are exact in binary floating point within the bounds used,   *)
(* so the integer arithmetic below is the arithmetic of the code.  The     *)
(* literal 1 / 1.0 of the source is TicksPerUnit ticks.                    *)
(* Texts with one digit after the point ("0.4"), whose values binary       *)
(* floating point rounds, are modelled for Round Robin in the section      *)
(* "Round Robin on binary64 values", with the rounding of each operation.  *)
(*                                                                         *)
(* A Python dict is a TLA+ record; a dict that gains keys ('remaining',    *)
(* 'segments', ...) is a record whose domain grows.  The lists plist[:],   *)
(* sorted(plist) and available hold references to the dicts of             *)
(* processList: they are sequences of indices into processList, so that a  *)
(* write through one of them is a write to the shared dict.                *)
(***************************************************************************)
EXTENDS Integers, Sequences, FiniteSets, TLC

\* ---------------------------------------------------------------- bounds
TicksPerUnit == 2      \* resolution of the modelled reals: 1 tick = 1/2 unit
MaxRows      == 3      \* rows the table may hold
MaxArrival   == 2      \* arrival cells hold 0..MaxArrival ticks
MaxBurst     == 3      \* burst cells hold -MaxNegBurst..MaxBurst ticks
MaxNegBurst  == 1
MaxKey       == 1      \* priority / period / deadline cells hold 0..MaxKey
MaxQuantum   == 2      \* quantum field holds -1 unit..MaxQuantum ticks, or junk

\* The bounds of the small specifications (SpecSmall, ...), which stay within
\* reach when every bound is raised.
SmallRows     == 2
SmallArrival  == 1
SmallBurst    == 3
SmallNegBurst == 0
SmallKey      == 0
SmallQuantum  == 1

\* The bounds of the decimal texts (SpecRoundRobin64), in tenths of a unit.
MaxTenths        == 4      \* burst cells hold "0.0" .. "0.4"
MaxQuantumTenths == 2      \* quantum field holds "0.0" .. "0.2", or junk

\* ------------------------------------------------------- texts and floats
\* The text of a cell or line edit.  A text that float() accepts is
\* represented by the number it denotes (in ticks); any other text is Junk.
Num(n) == [num |-> TRUE, val |-> n]
Junk   == [num |-> FALSE, val |-> 0]

\* The numeric texts lo..hi
Texts(lo, hi) == {Num(n) : n \in lo..hi}

ArrivalTexts == Texts(0, MaxArrival)
BurstTexts   == Texts(0 - MaxNegBurst, MaxBurst)
KeyTexts     == Texts(0, MaxKey)
QuantumTexts == Texts(0 - TicksPerUnit, MaxQuantum) \cup {Junk}

\* float(text) succeeds exactly on numeric texts and yields the number.
FloatRaises(text) == ~text.num
Float(text) == text.val

\* --------------------------------------------------------------- the combo
PromptEntry == "Select Algorithm"
Algorithms == {"FCFS", "SJF (Non Preemptive)", "SJF (Preemptive)",
               "Priority Scheduling", "RMS", "EDF", "Round Robin"}
PriorityOrders == {"Greater Priority First", "Smaller Priority First"}

\* The algorithms whose policy may run a process in several pieces.
PreemptiveAlgorithms == {"SJF (Preemptive)", "Round Robin"}

\* What line 584 may read: an item of the combo, no text at all (an empty
\* combo), or some other text.
OrderTexts == PriorityOrders \cup {"", "Highest First"}

VARIABLES
    alg,            \* schedAlgoCombo.currentText()
    columns,        \* header labels of processTable (its column count)
    table,          \* rows of processTable: each a tuple of cell texts
    processCount,   \* counter for default process names
    run             \* the locals of one startScheduling call (see IdleRun)

vars == <<alg, columns, table, processCount, run>>

\* ------------------------------------------------------- sequence helpers
Range(s) == {s[k] : k \in 1..Len(s)}

RemoveAt(s, k) == [j \in 1..(Len(s) - 1) |-> IF j < k THEN s[j] ELSE s[j + 1]]

\* sorted(list, key=...): Python's sort is stable.  keys[j] is the key of
\* list[j]; the result lists the positions 1..Len(keys) in sorted order.
SortPerm(keys) ==
    LET n == Len(keys)
        rank(j) == Cardinality({k \in 1..n : keys[k] < keys[j]
                                   \/ (keys[k] = keys[j] /\ k < j)}) + 1
    IN  [pos \in 1..n |-> CHOOSE j \in 1..n : rank(j) = pos]

\* p.get(key, default)
Get(p, key, default) == IF key \in DOMAIN p THEN p[key] ELSE default

\* list sorted (stably), keys[j] being the key of list[j]
SortedBy(list, keys) ==
    LET perm == SortPerm(keys)
    IN  [pos \in 1..Len(list) |-> list[perm[pos]]]

\* MinBy returning the last of the minimal elements.
MinByLast(list, keys) ==
    list[CHOOSE j \in 1..Len(list) :
            /\ \A k \in 1..Len(list) : keys[j] <= keys[k]
            /\ \A k \in (j + 1)..Len(list) : keys[k] > keys[j]]

\* min(list, key=...) and max(list, key=...), keys[j] being the key of
\* list[j]: the first extremal element.
MinBy(list, keys) ==
    list[CHOOSE j \in 1..Len(list) :
            /\ \A k \in 1..Len(list) : keys[j] <= keys[k]
            /\ \A k \in 1..(j - 1) : keys[k] > keys[j]]

\* MaxBy returning the last of the maximal elements.
MaxByLast(list, keys) ==
    list[CHOOSE j \in 1..Len(list) :
            /\ \A k \in 1..Len(list) : keys[j] >= keys[k]
            /\ \A k \in (j + 1)..Len(list) : keys[k] < keys[j]]

MaxBy(list, keys) ==
    list[CHOOSE j \in 1..Len(list) :
            /\ \A k \in 1..Len(list) : keys[j] >= keys[k]
            /\ \A k \in 1..(j - 1) : keys[k] < keys[j]]

\* [p[field] for p in list], list holding indices into plist
Keys(plist, list, field) == [j \in 1..Len(list) |-> plist[list[j]][field]]

\* [p.get(field, default) for p in list]
KeysOr(plist, list, field, default) ==
    [j \in 1..Len(list) |-> Get(plist[list[j]], field, default)]

\* dict[k] = v on a dict that may or may not have the key k
SetKey(d, k, v) == [x \in (DOMAIN d) \cup {k} |-> IF x = k THEN v ELSE d[x]]

\* ------------------------------------------------------------ the UI side
\* SchedulingTab.updateProcessInputForm: the header labels for an algorithm
ColumnsFor(a) ==
    IF a = "Priority Scheduling"
    THEN <<"Process Name", "Arrival Time", "Burst Time", "Priority">>
    ELSE IF a = "RMS"
    THEN <<"Process Name", "Arrival Time", "Burst Time", "Period">>
    ELSE IF a = "EDF"
    THEN <<"Process Name", "Arrival Time", "Burst Time", "Deadline">>
    ELSE <<"Process Name", "Arrival Time", "Burst Time">>

\* The locals of startScheduling and of the policy it calls, before a call.
\* broke records that a loop was left by its break statement.  calls counts
\* the calls of the policy on processList, and prior is what the call before
\* the latest returned.  quantumText and orderText are what the call read
\* from timeQuantumEdit and priorityOrderCombo.
IdleRun ==
    [pc                |-> "ui",
     processList       |-> <<>>,
     plist_sorted      |-> <<>>,
     unscheduled       |-> <<>>,
     sched             |-> <<>>,
     currentTime       |-> 0,
     last_proc         |-> <<>>,
     quantumText       |-> Junk,
     orderText         |-> "Smaller Priority First",
     quantum           |-> 0,
     order             |-> "",
     i                 |-> 0,
     executed_in_round |-> FALSE,
     broke             |-> FALSE,
     schedule          |-> <<>>,
     calls             |-> 0,
     prior             |-> <<>>]

Init ==
    /\ alg = PromptEntry
    /\ columns = ColumnsFor(PromptEntry)
    /\ table = <<>>
    /\ processCount = 0
    /\ run = IdleRun

\* currentIndexChanged -> updateProcessInputForm(currentText())
SelectAlgorithm(a) ==
    /\ run.pc = "ui"
    /\ a # alg
    /\ alg' = a
    /\ columns' = ColumnsFor(a)
    /\ table' = <<>>
    /\ processCount' = 0
    /\ UNCHANGED <<run>>

DefaultName(n) == <<"p", n>>

\* SchedulingTab.addProcessRow.  A name is a tuple: f"p{n}" is <<"p", n>>,
\* and None (no name) is the empty tuple.
AddProcessRow(maxRows) ==
    /\ run.pc = "ui"
    /\ Len(table) < maxRows
    /\ processCount < maxRows
    /\ processCount' = processCount + 1
    /\ table' = Append(table,
          [col \in 1..Len(columns) |->
              IF col = 1 THEN DefaultName(processCount + 1) ELSE Num(0)])
    /\ UNCHANGED <<alg, columns, run>>

\* SchedulingTab.clearTable
ClearTable ==
    /\ run.pc = "ui"
    /\ table' = <<>>
    /\ processCount' = 0
    /\ UNCHANGED <<alg, columns, run>>

\* RemoveProcess taking the removed row off the counter as well
\* (self.processCount -= 1).
RemoveProcessCountingDown(r) ==
    /\ run.pc = "ui"
    /\ r \in 1..Len(table)
    /\ table' = RemoveAt(table, r)
    /\ processCount' = processCount - 1
    /\ UNCHANGED <<alg, columns, run>>

\* SchedulingTab.removeProcess with row r selected
RemoveProcess(r) ==
    /\ run.pc = "ui"
    /\ r \in 1..Len(table)
    /\ table' = RemoveAt(table, r)
    /\ UNCHANGED <<alg, columns, processCount, run>>

\* The user types text into the cell (r, col) of the table.
EditCell(r, col, text) ==
    /\ run.pc = "ui"
    /\ r \in 1..Len(table)
    /\ col \in 2..Len(columns)
    /\ table[r][col] # text
    /\ table' = [table EXCEPT ![r][col] = text]
    /\ UNCHANGED <<alg, columns, processCount, run>>

\* The user types the default name of row n into the name cell of row r
\* (the items addProcessRow creates are editable).
EditName(r, n) ==
    /\ run.pc = "ui"
    /\ r \in 1..Len(table)
    /\ table[r][1] # DefaultName(n)
    /\ table' = [table EXCEPT ![r][1] = DefaultName(n)]
    /\ UNCHANGED <<alg, columns, processCount, run>>

\* ------------------------------------------------- startScheduling: gather
\* Lines 348-365: the dict built from one table row.  Every cell of a row
\* holds an item (addProcessRow fills them all), so the "if item else"
\* defaults are never taken; float() of the fourth cell is guarded by
\* try/except, float() of arrival and burst is not.
\* RowDict giving a fourth cell that holds no number the rank of
\* priority_schedule's p.get('priority', 9999).
RowDictRanking9999(row, ncols, a) ==
    LET proc  == [name |-> row[1], arrival |-> Float(row[2]), burst |-> Float(row[3])]
        value == IF FloatRaises(row[4]) THEN 9999 * TicksPerUnit
                 ELSE Float(row[4])
    IN  IF ncols >= 4
        THEN IF a = "Priority Scheduling" THEN SetKey(proc, "priority", value)
             ELSE IF a = "RMS" THEN SetKey(proc, "period", value)
             ELSE IF a = "EDF" THEN SetKey(proc, "deadline", value)
             ELSE proc
        ELSE proc

RowDict(row, ncols, a) ==
    LET proc  == [name |-> row[1], arrival |-> Float(row[2]), burst |-> Float(row[3])]
        value == IF FloatRaises(row[4]) THEN proc.arrival + proc.burst
                 ELSE Float(row[4])
    IN  IF ncols >= 4
        THEN IF a = "Priority Scheduling" THEN SetKey(proc, "priority", value)
             ELSE IF a = "RMS" THEN SetKey(proc, "period", value)
             ELSE IF a = "EDF" THEN SetKey(proc, "deadline", value)
             ELSE proc
        ELSE proc

\* GatherProcessList with the loop running one row too far
\* (range(rows + 1)): the row past the end has no items, so that the
\* defaults of lines 349-351 and 356 apply.
GatherProcessListOneMore(tbl, ncols, a) ==
    [r \in 1..(Len(tbl) + 1) |->
        IF r <= Len(tbl) THEN RowDict(tbl[r], ncols, a)
        ELSE RowDict(<<DefaultName(r), Num(0), Num(0), Junk>>, ncols, a)]

GatherProcessList(tbl, ncols, a) ==
    [r \in 1..Len(tbl) |-> RowDict(tbl[r], ncols, a)]

GatherRaises(tbl) ==
    \E r \in 1..Len(tbl) : FloatRaises(tbl[r][2]) \/ FloatRaises(tbl[r][3])

\* ------------------------------------------------------ policies: helpers
Max(a, b) == IF a >= b THEN a ELSE b
Min(a, b) == IF a <= b THEN a ELSE b

Indices(plist) == [k \in 1..Len(plist) |-> k]

\* one entry of the returned schedule
Segment(p, start, finish) ==
    [name |-> p.name, arrival |-> p.arrival, burst |-> p.burst,
     start |-> start, finish |-> finish]

\* [p for p in list if p['arrival'] <= now]
Available(plist, list, now) ==
    SelectSeq(list, LAMBDA k : plist[k].arrival <= now)

\* min(list, key=lambda p: p['arrival'])['arrival']
MinArrival(plist, list) ==
    plist[MinBy(list, Keys(plist, list, "arrival"))].arrival

\* "if not available: currentTime = min(...)['arrival']": the clock at which
\* the available list is finally computed.
\* ClockAfterIdle moving the clock to the latest arrival (max for min).
ClockAfterIdleToLatest(plist, list, now) ==
    IF Available(plist, list, now) = <<>>
    THEN plist[MaxBy(list, Keys(plist, list, "arrival"))].arrival
    ELSE now

ClockAfterIdle(plist, list, now) ==
    IF Available(plist, list, now) = <<>> THEN MinArrival(plist, list) ELSE now

\* list.remove(chosen): removes the first element EQUAL to the chosen dict
RemoveChosen(plist, list, chosen) ==
    RemoveAt(list, CHOOSE j \in 1..Len(list) :
                      /\ plist[list[j]] = plist[chosen]
                      /\ \A k \in 1..(j - 1) : plist[list[k]] # plist[chosen])

\* What a policy hands back: startScheduling keeps processList, the texts
\* it read, quantum, order and the schedule, the policy's locals are gone, and the Gantt
\* window opens.
Return(rn, result) ==
    [IdleRun EXCEPT !.pc = "gantt",
                    !.processList = rn.processList,
                    !.quantumText = rn.quantumText,
                    !.orderText = rn.orderText,
                    !.quantum = rn.quantum,
                    !.order = rn.order,
                    !.schedule = result,
                    !.calls = rn.calls,
                    !.prior = rn.prior]

\* ----------------------------------------------------------------- FCFS
\* fcfs_enter without the sort: the processes in input order.
fcfs_enter_input_order(rn) ==
    [rn EXCEPT !.pc = "fcfs_schedule",
               !.plist_sorted = Indices(rn.processList),
               !.currentTime = 0,
               !.sched = <<>>,
               !.i = 1]

\* fcfs_enter with the processes that arrive together ordered by burst
\* (key=lambda p: (p['arrival'], p['burst'])).
fcfs_enter_ties_by_burst(rn) ==
    LET byBurst == SortedBy(Indices(rn.processList),
                       Keys(rn.processList, Indices(rn.processList), "burst"))
    IN  [rn EXCEPT !.pc = "fcfs_schedule",
                   !.plist_sorted = SortedBy(byBurst,
                                       Keys(rn.processList, byBurst, "arrival")),
                   !.currentTime = 0,
                   !.sched = <<>>,
                   !.i = 1]

fcfs_enter(rn) ==
    [rn EXCEPT !.pc = "fcfs_schedule",
               !.plist_sorted = SortedBy(Indices(rn.processList),
                                   Keys(rn.processList, Indices(rn.processList), "arrival")),
               !.currentTime = 0,
               !.sched = <<>>,
               !.i = 1]

\* fcfs_body with the arrival left out of the start of a segment.
fcfs_body_ignoring_arrival(rn) ==
    LET p      == rn.processList[rn.plist_sorted[rn.i]]
        start  == rn.currentTime
        finish == start + p.burst
    IN  [rn EXCEPT !.sched = Append(@, Segment(p, start, finish)),
                   !.currentTime = finish,
                   !.i = @ + 1]

fcfs_body(rn) ==
    LET p      == rn.processList[rn.plist_sorted[rn.i]]
        start  == Max(rn.currentTime, p.arrival)
        finish == start + p.burst
    IN  [rn EXCEPT !.sched = Append(@, Segment(p, start, finish)),
                   !.currentTime = finish,
                   !.i = @ + 1]

FcfsIteration ==
    /\ run.pc = "fcfs_schedule"
    /\ run.i <= Len(run.plist_sorted)
    /\ run' = fcfs_body(run)
    /\ UNCHANGED <<alg, columns, table, processCount>>

FcfsReturn ==
    /\ run.pc = "fcfs_schedule"
    /\ run.i > Len(run.plist_sorted)
    /\ run' = Return(run, run.sched)
    /\ UNCHANGED <<alg, columns, table, processCount>>

\* ------------------------------------------------------ SJF non-preemptive
sjf_non_preemptive_enter(rn) ==
    [rn EXCEPT !.pc = "sjf_non_preemptive_schedule",
               !.unscheduled = Indices(rn.processList),
               !.sched = <<>>,
               !.currentTime = 0]

\* sjf_non_preemptive_body with the chosen process cut short at the arrival
\* of a process with a smaller burst.
sjf_non_preemptive_body_cut_at_arrival(rn) ==
    LET plist     == rn.processList
        now       == ClockAfterIdle(plist, rn.unscheduled, rn.currentTime)
        available == Available(plist, rn.unscheduled, now)
        chosen    == MinBy(available, Keys(plist, available, "burst"))
        start     == Max(now, plist[chosen].arrival)
        whole     == start + plist[chosen].burst
        better    == {plist[k].arrival : k \in {k \in Range(rn.unscheduled) :
                         /\ plist[k].arrival > start
                         /\ plist[k].arrival < whole
                         /\ plist[k].burst < plist[chosen].burst}}
        finish    == IF better = {} THEN whole
                     ELSE CHOOSE t \in better : \A u \in better : t <= u
    IN  [rn EXCEPT !.sched = Append(@, Segment(plist[chosen], start, finish)),
                   !.currentTime = finish,
                   !.unscheduled = RemoveChosen(plist, @, chosen)]

\* sjf_non_preemptive_body starting the chosen process at its arrival
\* (start = chosen['arrival']) and not at the later of clock and arrival.
sjf_non_preemptive_body_from_arrival(rn) ==
    LET plist     == rn.processList
        now       == ClockAfterIdle(plist, rn.unscheduled, rn.currentTime)
        available == Available(plist, rn.unscheduled, now)
        chosen    == MinBy(available, Keys(plist, available, "burst"))
        start     == plist[chosen].arrival
        finish    == start + plist[chosen].burst
    IN  [rn EXCEPT !.sched = Append(@, Segment(plist[chosen], start, finish)),
                   !.currentTime = finish,
                   !.unscheduled = RemoveChosen(plist, @, chosen)]

sjf_non_preemptive_body(rn) ==
    LET plist     == rn.processList
        now       == ClockAfterIdle(plist, rn.unscheduled, rn.currentTime)
        available == Available(plist, rn.unscheduled, now)
        chosen    == MinBy(available, Keys(plist, available, "burst"))
        start     == Max(now, plist[chosen].arrival)
        finish    == start + plist[chosen].burst
    IN  [rn EXCEPT !.sched = Append(@, Segment(plist[chosen], start, finish)),
                   !.currentTime = finish,
                   !.unscheduled = RemoveChosen(plist, @, chosen)]

SjfNpIteration ==
    /\ run.pc = "sjf_non_preemptive_schedule"
    /\ run.unscheduled # <<>>
    /\ run' = sjf_non_preemptive_body(run)
    /\ UNCHANGED <<alg, columns, table, processCount>>

SjfNpReturn ==
    /\ run.pc = "sjf_non_preemptive_schedule"
    /\ run.unscheduled = <<>>
    /\ run' = Return(run, run.sched)
    /\ UNCHANGED <<alg, columns, table, processCount>>

\* ----------------------------------------------------------- SJF preemptive
\* "for p in plist: p['remaining'] = p['burst']; p['segments'] = []" writes
\* into the dicts of processList.
\* WithRunState keeping the segments a dict already has
\* (p.setdefault('segments', [])).
WithRunStateKeepingSegments(plist) ==
    [k \in 1..Len(plist) |->
        SetKey(SetKey(plist[k], "remaining", plist[k].burst), "segments",
               Get(plist[k], "segments", <<>>))]

WithRunState(plist) ==
    [k \in 1..Len(plist) |->
        SetKey(SetKey(plist[k], "remaining", plist[k].burst), "segments", <<>>)]

AnyRemaining(plist) == \E k \in 1..Len(plist) : plist[k].remaining > 0

\* Lines 433-443 and 474-484: every process's segments, in the order of
\* list, as schedule entries; then sorted (stably) by start.
RECURSIVE FlattenFrom(_, _, _)
FlattenFrom(plist, list, j) ==
    IF j > Len(list) THEN <<>>
    ELSE LET p == plist[list[j]]
         IN  [n \in 1..Len(p.segments) |->
                 Segment(p, p.segments[n].start, p.segments[n].end)]
             \o FlattenFrom(plist, list, j + 1)

FlattenSorted(plist, list) ==
    LET sched == FlattenFrom(plist, list, 1)
    IN  SortedBy(sched, [j \in 1..Len(sched) |-> sched[j].start])

sjf_preemptive_enter(rn) ==
    [rn EXCEPT !.pc = "sjf_preemptive_schedule",
               !.processList = WithRunState(@),
               !.currentTime = 0,
               !.last_proc = <<>>,
               !.broke = FALSE]

\* sjf_preemptive_body whose idle branch leaves the clock where it is.
sjf_preemptive_body_stalling(rn) ==
    LET plist     == rn.processList
        time      == rn.currentTime
        available == SelectSeq(Indices(plist), LAMBDA k :
                        plist[k].arrival <= time /\ plist[k].remaining > 0)
        current   == MinBy(available, Keys(plist, available, "remaining"))
        cur       == plist[current]
        seg_start  == time
        seg_finish == time + TicksPerUnit
        last      == Len(cur.segments)
        segments  == IF /\ cur.segments # <<>>
                        /\ cur.name = rn.last_proc
                        /\ cur.segments[last].end = seg_start
                     THEN [cur.segments EXCEPT ![last].end = seg_finish]
                     ELSE Append(cur.segments,
                                 [start |-> seg_start, end |-> seg_finish])
    IN  IF available = <<>>
        THEN rn
        ELSE [rn EXCEPT !.currentTime = seg_finish,
                        !.processList[current].remaining = @ - TicksPerUnit,
                        !.processList[current].segments = segments,
                        !.last_proc = cur.name]

\* sjf_preemptive_body taking a process for available only after its
\* arrival (p['arrival'] < time).
sjf_preemptive_body_strict_arrival(rn) ==
    LET plist     == rn.processList
        time      == rn.currentTime
        available == SelectSeq(Indices(plist), LAMBDA k :
                        plist[k].arrival < time /\ plist[k].remaining > 0)
        next_arrivals == SelectSeq(Indices(plist), LAMBDA k :
                        plist[k].arrival > time /\ plist[k].remaining > 0)
        current   == MinBy(available, Keys(plist, available, "remaining"))
        cur       == plist[current]
        seg_start  == time
        seg_finish == time + TicksPerUnit
        last      == Len(cur.segments)
        segments  == IF /\ cur.segments # <<>>
                        /\ cur.name = rn.last_proc
                        /\ cur.segments[last].end = seg_start
                     THEN [cur.segments EXCEPT ![last].end = seg_finish]
                     ELSE Append(cur.segments,
                                 [start |-> seg_start, end |-> seg_finish])
    IN  IF available = <<>>
        THEN IF next_arrivals # <<>>
             THEN [rn EXCEPT !.currentTime = MinArrival(plist, next_arrivals)]
             ELSE [rn EXCEPT !.broke = TRUE]
        ELSE [rn EXCEPT !.currentTime = seg_finish,
                        !.processList[current].remaining = @ - TicksPerUnit,
                        !.processList[current].segments = segments,
                        !.last_proc = cur.name]

\* sjf_preemptive_body opening a segment for every time unit, as
\* round_robin_schedule does for every quantum.
sjf_preemptive_body_never_coalescing(rn) ==
    LET plist     == rn.processList
        time      == rn.currentTime
        available == SelectSeq(Indices(plist), LAMBDA k :
                        plist[k].arrival <= time /\ plist[k].remaining > 0)
        next_arrivals == SelectSeq(Indices(plist), LAMBDA k :
                        plist[k].arrival > time /\ plist[k].remaining > 0)
        current   == MinBy(available, Keys(plist, available, "remaining"))
        cur       == plist[current]
        seg_start  == time
        seg_finish == time + TicksPerUnit
    IN  IF available = <<>>
        THEN IF next_arrivals # <<>>
             THEN [rn EXCEPT !.currentTime = MinArrival(plist, next_arrivals)]
             ELSE [rn EXCEPT !.broke = TRUE]
        ELSE [rn EXCEPT !.currentTime = seg_finish,
                        !.processList[current].remaining = @ - TicksPerUnit,
                        !.processList[current].segments =
                            Append(@, [start |-> seg_start, end |-> seg_finish]),
                        !.last_proc = cur.name]

\* sjf_preemptive_body choosing by the burst (key=lambda p: p['burst'])
\* for the remaining time.
sjf_preemptive_body_by_burst(rn) ==
    LET plist     == rn.processList
        time      == rn.currentTime
        available == SelectSeq(Indices(plist), LAMBDA k :
                        plist[k].arrival <= time /\ plist[k].remaining > 0)
        next_arrivals == SelectSeq(Indices(plist), LAMBDA k :
                        plist[k].arrival > time /\ plist[k].remaining > 0)
        current   == MinBy(available, Keys(plist, available, "burst"))
        cur       == plist[current]
        seg_start  == time
        seg_finish == time + TicksPerUnit
        last      == Len(cur.segments)
        segments  == IF /\ cur.segments # <<>>
                        /\ cur.name = rn.last_proc
                        /\ cur.segments[last].end = seg_start
                     THEN [cur.segments EXCEPT ![last].end = seg_finish]
                     ELSE Append(cur.segments,
                                 [start |-> seg_start, end |-> seg_finish])
    IN  IF available = <<>>
        THEN IF next_arrivals # <<>>
             THEN [rn EXCEPT !.currentTime = MinArrival(plist, next_arrivals)]
             ELSE [rn EXCEPT !.broke = TRUE]
        ELSE [rn EXCEPT !.currentTime = seg_finish,
                        !.processList[current].remaining = @ - TicksPerUnit,
                        !.processList[current].segments = segments,
                        !.last_proc = cur.name]

\* sjf_preemptive_body choosing the last of the processes tied on the
\* least remaining time.
sjf_preemptive_body_last_of_tied(rn) ==
    LET plist     == rn.processList
        time      == rn.currentTime
        available == SelectSeq(Indices(plist), LAMBDA k :
                        plist[k].arrival <= time /\ plist[k].remaining > 0)
        next_arrivals == SelectSeq(Indices(plist), LAMBDA k :
                        plist[k].arrival > time /\ plist[k].remaining > 0)
        current   == MinByLast(available, Keys(plist, available, "remaining"))
        cur       == plist[current]
        seg_start  == time
        seg_finish == time + TicksPerUnit
        last      == Len(cur.segments)
        segments  == IF /\ cur.segments # <<>>
                        /\ cur.name = rn.last_proc
                        /\ cur.segments[last].end = seg_start
                     THEN [cur.segments EXCEPT ![last].end = seg_finish]
                     ELSE Append(cur.segments,
                                 [start |-> seg_start, end |-> seg_finish])
    IN  IF available = <<>>
        THEN IF next_arrivals # <<>>
             THEN [rn EXCEPT !.currentTime = MinArrival(plist, next_arrivals)]
             ELSE [rn EXCEPT !.broke = TRUE]
        ELSE [rn EXCEPT !.currentTime = seg_finish,
                        !.processList[current].remaining = @ - TicksPerUnit,
                        !.processList[current].segments = segments,
                        !.last_proc = cur.name]

\* One pass through the body of the while loop (lines 410-431).
sjf_preemptive_body(rn) ==
    LET plist     == rn.processList
        time      == rn.currentTime
        available == SelectSeq(Indices(plist), LAMBDA k :
                        plist[k].arrival <= time /\ plist[k].remaining > 0)
        next_arrivals == SelectSeq(Indices(plist), LAMBDA k :
                        plist[k].arrival > time /\ plist[k].remaining > 0)
        current   == MinBy(available, Keys(plist, available, "remaining"))
        cur       == plist[current]
        seg_start  == time
        seg_finish == time + TicksPerUnit
        last      == Len(cur.segments)
        segments  == IF /\ cur.segments # <<>>
                        /\ cur.name = rn.last_proc
                        /\ cur.segments[last].end = seg_start
                     THEN [cur.segments EXCEPT ![last].end = seg_finish]
                     ELSE Append(cur.segments,
                                 [start |-> seg_start, end |-> seg_finish])
    IN  IF available = <<>>
        THEN IF next_arrivals # <<>>
             THEN [rn EXCEPT !.currentTime = MinArrival(plist, next_arrivals)]
             ELSE [rn EXCEPT !.broke = TRUE]
        ELSE [rn EXCEPT !.currentTime = seg_finish,
                        !.processList[current].remaining = @ - TicksPerUnit,
                        !.processList[current].segments = segments,
                        !.last_proc = cur.name]

SjfPIteration ==
    /\ run.pc = "sjf_preemptive_schedule"
    /\ ~run.broke
    /\ AnyRemaining(run.processList)
    /\ run' = sjf_preemptive_body(run)
    /\ UNCHANGED <<alg, columns, table, processCount>>

SjfPReturn ==
    /\ run.pc = "sjf_preemptive_schedule"
    /\ run.broke \/ ~AnyRemaining(run.processList)
    /\ run' = Return(run, FlattenSorted(run.processList, Indices(run.processList)))
    /\ UNCHANGED <<alg, columns, table, processCount>>

\* -------------------------------------------------------------- Round Robin
\* i is the position of the for loop in plist_sorted; i = 0 is the head of
\* the while loop.
round_robin_enter(rn, quantum) ==
    [rn EXCEPT !.pc = "round_robin_schedule",
               !.quantum = quantum,
               !.plist_sorted = SortedBy(Indices(rn.processList),
                                   Keys(rn.processList, Indices(rn.processList), "arrival")),
               !.processList = WithRunState(@),
               !.currentTime = 0,
               !.i = 0,
               !.broke = FALSE]

\* "while any(...): executed_in_round = False; for p in plist_sorted:"
round_robin_begin_pass(rn) ==
    [rn EXCEPT !.executed_in_round = FALSE, !.i = 1]

\* round_robin_scan without the test of the arrival (if p['remaining'] > 0).
round_robin_scan_ignoring_arrival(rn) ==
    LET k == rn.plist_sorted[rn.i]
        p == rn.processList[k]
        exec_time == Min(rn.quantum, p.remaining)
        seg_start == rn.currentTime
        seg_finish == rn.currentTime + exec_time
    IN  IF p.remaining > 0
        THEN [rn EXCEPT !.currentTime = seg_finish,
                        !.processList[k].remaining = @ - exec_time,
                        !.processList[k].segments =
                            Append(@, [start |-> seg_start, end |-> seg_finish]),
                        !.executed_in_round = TRUE,
                        !.i = @ + 1]
        ELSE [rn EXCEPT !.i = @ + 1]

\* round_robin_scan running every turn for the whole quantum
\* (exec_time = quantum).
round_robin_scan_whole_quantum(rn) ==
    LET k == rn.plist_sorted[rn.i]
        p == rn.processList[k]
        exec_time == rn.quantum
        seg_start == rn.currentTime
        seg_finish == rn.currentTime + exec_time
    IN  IF p.arrival <= rn.currentTime /\ p.remaining > 0
        THEN [rn EXCEPT !.currentTime = seg_finish,
                        !.processList[k].remaining = @ - exec_time,
                        !.processList[k].segments =
                            Append(@, [start |-> seg_start, end |-> seg_finish]),
                        !.executed_in_round = TRUE,
                        !.i = @ + 1]
        ELSE [rn EXCEPT !.i = @ + 1]

\* round_robin_scan passing over the process that follows one that has just
\* finished, as a for loop does over a list it removes the finished process
\* from.
round_robin_scan_skipping_after_finish(rn) ==
    LET k == rn.plist_sorted[rn.i]
        p == rn.processList[k]
        exec_time == Min(rn.quantum, p.remaining)
        seg_start == rn.currentTime
        seg_finish == rn.currentTime + exec_time
    IN  IF p.arrival <= rn.currentTime /\ p.remaining > 0
        THEN [rn EXCEPT !.currentTime = seg_finish,
                        !.processList[k].remaining = @ - exec_time,
                        !.processList[k].segments =
                            Append(@, [start |-> seg_start, end |-> seg_finish]),
                        !.executed_in_round = TRUE,
                        !.i = IF p.remaining - exec_time > 0 THEN @ + 1
                              ELSE Min(@ + 2, Len(rn.plist_sorted) + 1)]
        ELSE [rn EXCEPT !.i = @ + 1]

\* round_robin_scan taking a process for arrived only after its arrival
\* (p['arrival'] < time).
round_robin_scan_strict_arrival(rn) ==
    LET k == rn.plist_sorted[rn.i]
        p == rn.processList[k]
        exec_time == Min(rn.quantum, p.remaining)
        seg_start == rn.currentTime
        seg_finish == rn.currentTime + exec_time
    IN  IF p.arrival < rn.currentTime /\ p.remaining > 0
        THEN [rn EXCEPT !.currentTime = seg_finish,
                        !.processList[k].remaining = @ - exec_time,
                        !.processList[k].segments =
                            Append(@, [start |-> seg_start, end |-> seg_finish]),
                        !.executed_in_round = TRUE,
                        !.i = @ + 1]
        ELSE [rn EXCEPT !.i = @ + 1]

\* Lines 458-465: the for loop's body on plist_sorted[i].
round_robin_scan(rn) ==
    LET k == rn.plist_sorted[rn.i]
        p == rn.processList[k]
        exec_time == Min(rn.quantum, p.remaining)
        seg_start == rn.currentTime
        seg_finish == rn.currentTime + exec_time
    IN  IF p.arrival <= rn.currentTime /\ p.remaining > 0
        THEN [rn EXCEPT !.currentTime = seg_finish,
                        !.processList[k].remaining = @ - exec_time,
                        !.processList[k].segments =
                            Append(@, [start |-> seg_start, end |-> seg_finish]),
                        !.executed_in_round = TRUE,
                        !.i = @ + 1]
        ELSE [rn EXCEPT !.i = @ + 1]

\* round_robin_end_pass letting a quantum go by when the pass ran nothing
\* (time += quantum).
round_robin_end_pass_by_quantum(rn) ==
    LET plist == rn.processList
        next_arrivals == SelectSeq(rn.plist_sorted, LAMBDA k :
                            plist[k].arrival > rn.currentTime /\ plist[k].remaining > 0)
    IN  IF ~rn.executed_in_round
        THEN IF next_arrivals # <<>>
             THEN [rn EXCEPT !.currentTime = @ + rn.quantum, !.i = 0]
             ELSE [rn EXCEPT !.broke = TRUE, !.i = 0]
        ELSE [rn EXCEPT !.i = 0]

\* Lines 466-472: after the for loop.
round_robin_end_pass(rn) ==
    LET plist == rn.processList
        next_arrivals == SelectSeq(rn.plist_sorted, LAMBDA k :
                            plist[k].arrival > rn.currentTime /\ plist[k].remaining > 0)
    IN  IF ~rn.executed_in_round
        THEN IF next_arrivals # <<>>
             THEN [rn EXCEPT !.currentTime = MinArrival(plist, next_arrivals), !.i = 0]
             ELSE [rn EXCEPT !.broke = TRUE, !.i = 0]
        ELSE [rn EXCEPT !.i = 0]

RrBeginPass ==
    /\ run.pc = "round_robin_schedule"
    /\ run.i = 0
    /\ ~run.broke
    /\ AnyRemaining(run.processList)
    /\ run' = round_robin_begin_pass(run)
    /\ UNCHANGED <<alg, columns, table, processCount>>

RrScan ==
    /\ run.pc = "round_robin_schedule"
    /\ run.i \in 1..Len(run.plist_sorted)
    /\ run' = round_robin_scan(run)
    /\ UNCHANGED <<alg, columns, table, processCount>>

RrEndPass ==
    /\ run.pc = "round_robin_schedule"
    /\ run.i = Len(run.plist_sorted) + 1
    /\ run' = round_robin_end_pass(run)
    /\ UNCHANGED <<alg, columns, table, processCount>>

RrReturn ==
    /\ run.pc = "round_robin_schedule"
    /\ run.i = 0
    /\ run.broke \/ ~AnyRemaining(run.processList)
    /\ run' = Return(run, FlattenSorted(run.processList, run.plist_sorted))
    /\ UNCHANGED <<alg, columns, table, processCount>>

\* ------------------------------------------------------ Priority Scheduling
priority_enter(rn, order) ==
    [rn EXCEPT !.pc = "priority_schedule",
               !.order = order,
               !.unscheduled = Indices(rn.processList),
               !.sched = <<>>,
               !.currentTime = 0,
               !.last_proc = <<>>]

priority_body(rn) ==
    LET plist     == rn.processList
        now       == ClockAfterIdle(plist, rn.unscheduled, rn.currentTime)
        available == Available(plist, rn.unscheduled, now)
        chosen    == IF rn.order = "Smaller Priority First"
                     THEN MinBy(available, KeysOr(plist, available, "priority",
                                                      9999 * TicksPerUnit))
                     ELSE MaxBy(available, KeysOr(plist, available, "priority",
                                                      (0 - 9999) * TicksPerUnit))
        start     == Max(now, plist[chosen].arrival)
        finish    == start + plist[chosen].burst
    IN  [rn EXCEPT !.sched = Append(@, Segment(plist[chosen], start, finish)),
                   !.currentTime = finish,
                   !.last_proc = plist[chosen].name,
                   !.unscheduled = RemoveChosen(plist, @, chosen)]

PriorityIteration ==
    /\ run.pc = "priority_schedule"
    /\ run.unscheduled # <<>>
    /\ run' = priority_body(run)
    /\ UNCHANGED <<alg, columns, table, processCount>>

PriorityReturn ==
    /\ run.pc = "priority_schedule"
    /\ run.unscheduled = <<>>
    /\ run' = Return(run, run.sched)
    /\ UNCHANGED <<alg, columns, table, processCount>>

\* --------------------------------------------------------------------- RMS
\* "for p in plist: if key not in p: p[key] = p['arrival'] + p['burst']"
WithDefault(plist, key) ==
    [k \in 1..Len(plist) |->
        IF key \in DOMAIN plist[k] THEN plist[k]
        ELSE SetKey(plist[k], key, plist[k].arrival + plist[k].burst)]

rms_enter(rn) ==
    [rn EXCEPT !.pc = "rms_schedule",
               !.processList = WithDefault(@, "period"),
               !.unscheduled = Indices(rn.processList),
               !.sched = <<>>,
               !.currentTime = 0,
               !.last_proc = <<>>]

\* rms_body choosing by burst, as sjf_non_preemptive_schedule does
\* (key=lambda p: p['burst']).
rms_body_by_burst(rn) ==
    LET plist     == rn.processList
        now       == ClockAfterIdle(plist, rn.unscheduled, rn.currentTime)
        available == Available(plist, rn.unscheduled, now)
        chosen    == MinBy(available, Keys(plist, available, "burst"))
        start     == Max(now, plist[chosen].arrival)
        finish    == start + plist[chosen].burst
    IN  [rn EXCEPT !.sched = Append(@, Segment(plist[chosen], start, finish)),
                   !.currentTime = finish,
                   !.last_proc = plist[chosen].name,
                   !.unscheduled = RemoveChosen(plist, @, chosen)]

rms_body(rn) ==
    LET plist     == rn.processList
        now       == ClockAfterIdle(plist, rn.unscheduled, rn.currentTime)
        available == Available(plist, rn.unscheduled, now)
        chosen    == MinBy(available, Keys(plist, available, "period"))
        start     == Max(now, plist[chosen].arrival)
        finish    == start + plist[chosen].burst
    IN  [rn EXCEPT !.sched = Append(@, Segment(plist[chosen], start, finish)),
                   !.currentTime = finish,
                   !.last_proc = plist[chosen].name,
                   !.unscheduled = RemoveChosen(plist, @, chosen)]

RmsIteration ==
    /\ run.pc = "rms_schedule"
    /\ run.unscheduled # <<>>
    /\ run' = rms_body(run)
    /\ UNCHANGED <<alg, columns, table, processCount>>

RmsReturn ==
    /\ run.pc = "rms_schedule"
    /\ run.unscheduled = <<>>
    /\ run' = Return(run, run.sched)
    /\ UNCHANGED <<alg, columns, table, processCount>>

\* --------------------------------------------------------------------- EDF
\* edf_enter with the sorted list turned round (sorted(...)[::-1]): the
\* processes tied on the deadline stand in the reverse of the table's order.
edf_enter_reversed(rn) ==
    LET plist  == WithDefault(rn.processList, "deadline")
        sorted == SortedBy(Indices(plist), Keys(plist, Indices(plist), "deadline"))
    IN  [rn EXCEPT !.pc = "edf_schedule",
                   !.processList = plist,
                   !.plist_sorted = [j \in 1..Len(sorted) |->
                                        sorted[Len(sorted) + 1 - j]],
                   !.currentTime = 0,
                   !.sched = <<>>,
                   !.last_proc = <<>>]

\* edf_enter with the list sorted by burst (key=lambda p: p['burst']), so
\* that of the processes tied on the deadline the one with the least burst
\* stands first.
edf_enter_sorted_by_burst(rn) ==
    LET plist == WithDefault(rn.processList, "deadline")
    IN  [rn EXCEPT !.pc = "edf_schedule",
                   !.processList = plist,
                   !.plist_sorted = SortedBy(Indices(plist),
                                       Keys(plist, Indices(plist), "burst")),
                   !.currentTime = 0,
                   !.sched = <<>>,
                   !.last_proc = <<>>]

edf_enter(rn) ==
    LET plist == WithDefault(rn.processList, "deadline")
    IN  [rn EXCEPT !.pc = "edf_schedule",
                   !.processList = plist,
                   !.plist_sorted = SortedBy(Indices(plist),
                                       Keys(plist, Indices(plist), "deadline")),
                   !.currentTime = 0,
                   !.sched = <<>>,
                   !.last_proc = <<>>]

edf_body(rn) ==
    LET plist     == rn.processList
        now       == ClockAfterIdle(plist, rn.plist_sorted, rn.currentTime)
        available == Available(plist, rn.plist_sorted, now)
        chosen    == MinBy(available, Keys(plist, available, "deadline"))
        start     == Max(now, plist[chosen].arrival)
        finish    == start + plist[chosen].burst
    IN  [rn EXCEPT !.sched = Append(@, Segment(plist[chosen], start, finish)),
                   !.currentTime = finish,
                   !.last_proc = plist[chosen].name,
                   !.plist_sorted = RemoveChosen(plist, @, chosen)]

EdfIteration ==
    /\ run.pc = "edf_schedule"
    /\ run.plist_sorted # <<>>
    /\ run' = edf_body(run)
    /\ UNCHANGED <<alg, columns, table, processCount>>

EdfReturn ==
    /\ run.pc = "edf_schedule"
    /\ run.plist_sorted = <<>>
    /\ run' = Return(run, run.sched)
    /\ UNCHANGED <<alg, columns, table, processCount>>

\* ------------------------------------------------- one step of any policy
\* The step the policy of the call rn takes next: the body of its loop while
\* the loop's condition holds, its return statement after that.
StepOf(rn) ==
    CASE rn.pc = "fcfs_schedule" ->
           IF rn.i <= Len(rn.plist_sorted) THEN fcfs_body(rn)
           ELSE Return(rn, rn.sched)
      [] rn.pc = "sjf_non_preemptive_schedule" ->
           IF rn.unscheduled # <<>> THEN sjf_non_preemptive_body(rn)
           ELSE Return(rn, rn.sched)
      [] rn.pc = "sjf_preemptive_schedule" ->
           IF ~rn.broke /\ AnyRemaining(rn.processList)
           THEN sjf_preemptive_body(rn)
           ELSE Return(rn, FlattenSorted(rn.processList, Indices(rn.processList)))
      [] rn.pc = "round_robin_schedule" ->
           IF rn.i = 0
           THEN IF ~rn.broke /\ AnyRemaining(rn.processList)
                THEN round_robin_begin_pass(rn)
                ELSE Return(rn, FlattenSorted(rn.processList, rn.plist_sorted))
           ELSE IF rn.i <= Len(rn.plist_sorted) THEN round_robin_scan(rn)
           ELSE round_robin_end_pass(rn)
      [] rn.pc = "priority_schedule" ->
           IF rn.unscheduled # <<>> THEN priority_body(rn)
           ELSE Return(rn, rn.sched)
      [] rn.pc = "rms_schedule" ->
           IF rn.unscheduled # <<>> THEN rms_body(rn)
           ELSE Return(rn, rn.sched)
      [] rn.pc = "edf_schedule" ->
           IF rn.plist_sorted # <<>> THEN edf_body(rn)
           ELSE Return(rn, rn.sched)
      [] OTHER -> rn

\* The call rn run to its return statement, in at most fuel steps.
RECURSIVE RunToEnd(_, _)
RunToEnd(rn, fuel) ==
    IF rn.pc \in {"gantt", "ui", "ValueError"} \/ fuel = 0 THEN rn
    ELSE RunToEnd(StepOf(rn), fuel - 1)

\* ---------------------------------------------- startScheduling: dispatch
\* NormalQuantum replacing a quantum of 0 only (quantum == 0).
NormalQuantumZeroOnly(text) ==
    IF FloatRaises(text) THEN TicksPerUnit
    ELSE IF Float(text) = 0 THEN TicksPerUnit
    ELSE Float(text)

\* Lines 591-596: the quantum Round Robin runs with.
NormalQuantum(text) ==
    IF FloatRaises(text) THEN TicksPerUnit
    ELSE IF Float(text) <= 0 THEN TicksPerUnit
    ELSE Float(text)

\* NormalOrder falling back on the first item of the combo.
NormalOrderGreaterFirst(text) ==
    IF text \in PriorityOrders THEN text ELSE "Greater Priority First"

\* Line 584
NormalOrder(text) ==
    IF text \in PriorityOrders THEN text ELSE "Smaller Priority First"

\* Lines 577-599: the call of the policy for the selected algorithm, up to
\* the head of the policy's loop.
Dispatch(rn, a, quantumText, orderText) ==
    IF a = "FCFS" THEN fcfs_enter(rn)
    ELSE IF a = "SJF (Non Preemptive)" THEN sjf_non_preemptive_enter(rn)
    ELSE IF a = "SJF (Preemptive)" THEN sjf_preemptive_enter(rn)
    ELSE IF a = "Priority Scheduling" THEN priority_enter(rn, NormalOrder(orderText))
    ELSE IF a = "RMS" THEN rms_enter(rn)
    ELSE IF a = "EDF" THEN edf_enter(rn)
    ELSE IF a = "Round Robin" THEN round_robin_enter(rn, NormalQuantum(quantumText))
    ELSE fcfs_enter(rn)

\* Lines 344-599 on a table and the texts the quantum field and the
\* priority-order combo hold.  float() of an arrival or burst cell that
\* holds no number raises ValueError at line 350 or 351, which nothing
\* catches: the call ends there, with no schedule and no Gantt window.
Started(rn, tbl, ncols, a, quantumText, orderText) ==
    IF GatherRaises(tbl)
    THEN [rn EXCEPT !.pc = "ValueError"]
    ELSE Dispatch([rn EXCEPT !.processList = GatherProcessList(tbl, ncols, a),
                             !.quantumText = quantumText,
                             !.orderText = orderText,
                             !.calls = 1],
                  a, quantumText, orderText)

\* The Start Scheduling button, with the texts the quantum field and the
\* priority-order combo hold at the click.  The quantum field is read only
\* for Round Robin and the order combo only for Priority Scheduling.
StartScheduling(quantumText, orderText) ==
    /\ run.pc = "ui"
    /\ alg # "Round Robin" => quantumText = Junk
    /\ alg # "Priority Scheduling" => orderText = "Smaller Priority First"
    /\ run' = Started(run, table, Len(columns), alg, quantumText, orderText)
    /\ UNCHANGED <<alg, columns, table, processCount>>

\* The user closes the (modal) Gantt chart window; startScheduling returns.
CloseGantt ==
    /\ run.pc = "gantt"
    /\ run' = IdleRun
    /\ UNCHANGED <<alg, columns, table, processCount>>

\* A caller that hands the very dicts of processList, as the first call left
\* them, to the same policy with the same parameters a second time.
CallAgain ==
    /\ run.pc = "gantt"
    /\ run.calls = 1
    /\ run' = Dispatch([run EXCEPT !.calls = 2, !.prior = run.schedule,
                                   !.schedule = <<>>],
                       alg,
                       IF alg = "Round Robin" THEN Num(run.quantum) ELSE Junk,
                       run.order)
    /\ UNCHANGED <<alg, columns, table, processCount>>

\* ------------------------------------------------------- the specification
\* What the user can do, with at most maxRows rows (and as many default
\* names) and the texts of the given sets typed into the arrival, burst and
\* fourth cells and into the quantum field.
UserAction(maxRows, arrivals, bursts, keys, quanta) ==
    \/ \E a \in Algorithms : SelectAlgorithm(a)
    \/ AddProcessRow(maxRows)
    \/ ClearTable
    \/ \E r \in 1..maxRows : RemoveProcess(r)
    \/ \E r \in 1..maxRows, col \in 2..4 :
           \E text \in (IF col = 2 THEN arrivals ELSE IF col = 3 THEN bursts ELSE keys) :
               EditCell(r, col, text)
    \/ \E q \in quanta, o \in PriorityOrders : StartScheduling(q, o)
    \/ CloseGantt

PolicyStep ==
    \/ FcfsIteration \/ FcfsReturn
    \/ SjfNpIteration \/ SjfNpReturn
    \/ SjfPIteration \/ SjfPReturn
    \/ PriorityIteration \/ PriorityReturn
    \/ RmsIteration \/ RmsReturn
    \/ EdfIteration \/ EdfReturn
    \/ RrBeginPass \/ RrScan \/ RrEndPass \/ RrReturn

Next ==
    \/ UserAction(MaxRows, ArrivalTexts, BurstTexts, KeyTexts, QuantumTexts)
    \/ PolicyStep

Spec == Init /\ [][Next]_vars

\* The same program within the small bounds.
NextSmall ==
    \/ UserAction(SmallRows, Texts(0, SmallArrival),
                  Texts(0 - SmallNegBurst, SmallBurst),
                  Texts(0, SmallKey),
                  Texts(0, SmallQuantum) \cup {Num(0 - TicksPerUnit), Junk})
    \/ PolicyStep

SpecSmall == Init /\ [][NextSmall]_vars

\* The same program with text that is no number typed into arrival and
\* burst cells as well.
NextMalformed ==
    \/ UserAction(SmallRows, Texts(0, SmallArrival) \cup {Junk},
                  Texts(0 - SmallNegBurst, SmallBurst) \cup {Junk},
                  Texts(0, SmallKey) \cup {Junk},
                  Texts(0, SmallQuantum) \cup {Num(0 - TicksPerUnit), Junk})
    \/ PolicyStep

SpecMalformed == Init /\ [][NextMalformed]_vars

\* The same program with the names of the rows edited as well, so that rows
\* may share a name.
NextNames ==
    \/ NextSmall
    \/ \E r \in 1..SmallRows, n \in 1..SmallRows : EditName(r, n)

SpecNames == Init /\ [][NextNames]_vars

\* Start Scheduling has just been clicked on a table of at most maxRows
\* rows with their default names, whose cells hold texts of the given sets,
\* with the quantum field and the order combo holding one of the given
\* texts.
StartedOn(maxRows, arrivals, bursts, keys, quanta, orders) ==
    /\ alg \in Algorithms \cup {PromptEntry}
    /\ columns = ColumnsFor(alg)
    /\ \E n \in 0..maxRows :
          /\ processCount = n
          /\ \E as \in [1..n -> arrivals], bs \in [1..n -> bursts],
                ks \in [1..n -> IF Len(ColumnsFor(alg)) = 4
                                THEN keys ELSE {Junk}] :
                table = [r \in 1..n |->
                           [col \in 1..Len(ColumnsFor(alg)) |->
                               IF col = 1 THEN DefaultName(r)
                               ELSE IF col = 2 THEN as[r]
                               ELSE IF col = 3 THEN bs[r]
                               ELSE ks[r]]]
    /\ \E q \in quanta, o \in orders :
          /\ alg # "Round Robin" => q = Junk
          /\ alg # "Priority Scheduling" => o = "Smaller Priority First"
          /\ run = Started(IdleRun, table, Len(columns), alg, q, o)

\* The runs of the policies alone: Start Scheduling has just been clicked
\* on a table of at most SmallRows rows with their default names and
\* positive bursts, and the policy runs until it returns.  The fourth cell,
\* where there is one, holds no number, so that the priority, period or
\* deadline of a row is its arrival + burst (lines 357-365) and differs
\* from row to row.  startScheduling runs to completion once
\* started: the policy's loop is never suspended for ever.
InitStarted ==
    StartedOn(SmallRows, Texts(0, SmallArrival), Texts(1, SmallBurst), {Junk},
              Texts(0, SmallQuantum) \cup {Junk}, PriorityOrders)

FairSpecRuns == InitStarted /\ [][PolicyStep]_vars /\ WF_vars(PolicyStep)

\* The runs of the policies for every text line 584 may read as the
\* priority order.
InitOrders ==
    StartedOn(SmallRows, Texts(0, SmallArrival), Texts(1, SmallBurst), {Junk},
              Texts(0, SmallQuantum) \cup {Junk}, OrderTexts)

SpecOrders == InitOrders /\ [][PolicyStep]_vars

\* The runs of the policies on tables whose fourth cells hold a number or
\* no number.
InitKeys ==
    StartedOn(SmallRows, Texts(0, SmallArrival), Texts(1, SmallBurst),
              Texts(0, SmallKey) \cup {Junk},
              Texts(0, SmallQuantum) \cup {Junk}, PriorityOrders)

SpecKeys == InitKeys /\ [][PolicyStep]_vars

\* The runs of the policies on tables with later arrivals and with bursts
\* of 0, so that the processor falls idle in the middle of a run as well as
\* at its start.
InitIdle ==
    StartedOn(SmallRows, Texts(0, SmallArrival + 1),
              Texts(0 - SmallNegBurst, SmallBurst), {Junk},
              Texts(0, SmallQuantum) \cup {Junk}, PriorityOrders)

SpecIdle == InitIdle /\ [][PolicyStep]_vars

\* The runs of SJF preemptive and Round Robin alone, on tables with bursts
\* of several time units and of parts of a time unit, with arrivals up to a
\* time unit, and with quanta of a time unit and less.
PreemptiveStep ==
    \/ SjfPIteration \/ SjfPReturn
    \/ RrBeginPass \/ RrScan \/ RrEndPass \/ RrReturn

InitPreemptive ==
    /\ alg \in PreemptiveAlgorithms
    /\ StartedOn(SmallRows, Texts(0, SmallArrival + 1),
                 Texts(0 - SmallNegBurst, SmallBurst + 2), {Junk},
                 Texts(1, SmallQuantum + 1) \cup {Junk}, PriorityOrders)

SpecPreemptive == InitPreemptive /\ [][PreemptiveStep]_vars

\* The runs of SJF preemptive alone on tables of one more row, whose
\* bursts run from a part of a time unit to two whole time units and whose
\* rows arrive at 0 or later.
SjfPreemptiveStep == SjfPIteration \/ SjfPReturn

InitSjfPreemptive ==
    /\ alg = "SJF (Preemptive)"
    /\ StartedOn(SmallRows + 1, {Num(0), Num(SmallArrival)},
                 Texts(TicksPerUnit - 1, 2 * TicksPerUnit), {Junk},
                 {Junk}, PriorityOrders)

SpecSjfPreemptive == InitSjfPreemptive /\ [][SjfPreemptiveStep]_vars

\* The runs of Round Robin alone on tables of one more row, with positive
\* bursts of more than one quantum and arrivals spread over the first two
\* quanta and beyond.
RoundRobinStep == RrBeginPass \/ RrScan \/ RrEndPass \/ RrReturn

InitRoundRobin ==
    /\ alg = "Round Robin"
    /\ StartedOn(SmallRows + 1, Texts(0, SmallArrival + 2),
                 Texts(SmallBurst, SmallBurst + 1), {Junk},
                 {Num(SmallQuantum + 1)}, PriorityOrders)

SpecRoundRobin == InitRoundRobin /\ [][RoundRobinStep]_vars

\* The process table alone: the algorithm combo and the Add Process, Clear
\* Table and Remove Process buttons, on a table of one more row, so that a
\* row can be added after a row before it has been removed while other
\* rows stay.
TableAction ==
    \/ \E a \in Algorithms : SelectAlgorithm(a)
    \/ AddProcessRow(MaxRows + 1)
    \/ ClearTable
    \/ \E r \in 1..(MaxRows + 1) : RemoveProcess(r)

SpecTable == Init /\ [][TableAction]_vars

\* The program, and a caller re-running a policy on the same dicts.
NextRerunSmall == NextSmall \/ CallAgain

SpecRerunSmall == Init /\ [][NextRerunSmall]_vars

\* ------------------------------------------- Round Robin on binary64 values
\* float() reads a decimal text as the nearest binary64 value, and lines
\* 459-463 add and subtract such values, each result rounded to 53
\* significant bits (to nearest, ties to even).  Ticks hold the multiples of
\* 1/TicksPerUnit, for which that arithmetic is exact; this section holds
\* the values of texts with one digit after the point, for which it is not.
\*
\* Every value v met here is 0 or at least 0.1, below 16, and a multiple of
\* 2^-56 (the spacing of binary64 between 1/16 and 1/8; sums, differences
\* and roundings of such multiples are such multiples).  v is held as the
\* natural number n = v * 2^56 in three limbs <<hi, mid, lo>>:
\* n = hi * Limb^2 + mid * Limb + lo with mid, lo < Limb.
Limb == 2^20

F64Zero == <<0, 0, 0>>
\* 1.0 = 2^56 = 2^16 * Limb^2
F64One  == <<Limb \div 16, 0, 0>>

\* a < b
F64Less(a, b) ==
    \/ a[1] < b[1]
    \/ a[1] = b[1] /\ a[2] < b[2]
    \/ a[1] = b[1] /\ a[2] = b[2] /\ a[3] < b[3]

\* a + b and, for a >= b, a - b, as the real numbers they are
ExactAdd(a, b) ==
    LET lo  == a[3] + b[3]
        mid == a[2] + b[2] + lo \div Limb
    IN  <<a[1] + b[1] + mid \div Limb, mid % Limb, lo % Limb>>

ExactSub(a, b) ==
    LET lo   == a[3] - b[3]
        blo  == IF lo < 0 THEN 1 ELSE 0
        mid  == a[2] - b[2] - blo
        bmid == IF mid < 0 THEN 1 ELSE 0
    IN  <<a[1] - b[1] - bmid, mid + bmid * Limb, lo + blo * Limb>>

\* the number of binary digits of n
RECURSIVE BitLength(_)
BitLength(n) == IF n = 0 THEN 0 ELSE 1 + BitLength(n \div 2)

SignificantBits(a) ==
    IF a[1] > 0 THEN 40 + BitLength(a[1])
    ELSE IF a[2] > 0 THEN 20 + BitLength(a[2])
    ELSE BitLength(a[3])

\* The binary64 nearest a + f * 2^-56, ties to even, where the fraction f
\* of the last place is given by rest: 0 for f = 0, 1 for 0 < f < 1/2, 2 for
\* f = 1/2 and 3 for 1/2 < f < 1.  A value of 53 + d significant bits keeps
\* its upper 53: the d bits dropped lie in the low limb (d <= 8 below 32).
\* A value of fewer than 53 bits is met with rest = 0 only (float("0.0") and
\* the small differences of line 463), and is exact.
RoundToNearestEven(a, rest) ==
    LET bits    == SignificantBits(a)
        d       == IF bits > 53 THEN bits - 53 ELSE 0
        place   == 2^d
        dropped == a[3] % place
        kept    == <<a[1], a[2], a[3] - dropped>>
        odd     == (a[3] \div place) % 2 = 1
        up      == IF d = 0
                   THEN rest = 3 \/ (rest = 2 /\ odd)
                   ELSE \/ 2 * dropped > place
                        \/ 2 * dropped = place /\ (rest > 0 \/ odd)
    IN  IF up THEN ExactAdd(kept, <<0, 0, place>>) ELSE kept

\* Line 461 (time += exec_time) and line 463 (p['remaining'] -= exec_time)
F64Add(a, b) == RoundToNearestEven(ExactAdd(a, b), 0)
F64Sub(a, b) == RoundToNearestEven(ExactSub(a, b), 0)

\* Line 459: min(a, b) is b only when b < a
F64Min(a, b) == IF F64Less(b, a) THEN b ELSE a

\* The text of k tenths written with one digit after the point
\* ("0.4" for k = 4, "1.0" for k = 10).
Decimal(k) == [num |-> TRUE, tenths |-> k]

DecimalTexts(lo, hi) == {Decimal(k) : k \in lo..hi}

\* float(text) of a decimal text: k * 2^56 divided by 10 limb by limb, the
\* remainder deciding the rounding of the quotient.
Float64(text) ==
    LET hi   == text.tenths * (Limb \div 16)
        rhi  == hi % 10
        mid  == rhi * Limb
        rmid == mid % 10
        lo   == rmid * Limb
        rlo  == lo % 10
        rest == IF rlo = 0 THEN 0 ELSE IF rlo < 5 THEN 1
                ELSE IF rlo = 5 THEN 2 ELSE 3
    IN  RoundToNearestEven(<<hi \div 10, mid \div 10, lo \div 10>>, rest)

\* Lines 348-352: the dict of a row of three cells
RowDict64(row) ==
    [name |-> row[1], arrival |-> Float64(row[2]), burst |-> Float64(row[3])]

GatherProcessList64(tbl) == [r \in 1..Len(tbl) |-> RowDict64(tbl[r])]

\* Keys for SortedBy and MinBy that order as the values vs do: the key of
\* vs[j] is the number of different values of vs below it.
Rank64(vs) ==
    [j \in 1..Len(vs) |-> Cardinality({w \in Range(vs) : F64Less(w, vs[j])})]

\* any(p['remaining'] > 0 for p in plist_sorted)
AnyRemaining64(plist) ==
    \E k \in 1..Len(plist) : F64Less(F64Zero, plist[k].remaining)

\* Lines 448-453
round_robin_enter64(rn, quantum) ==
    [rn EXCEPT !.pc = "round_robin_schedule",
               !.quantum = quantum,
               !.plist_sorted = SortedBy(Indices(rn.processList),
                                   Rank64(Keys(rn.processList,
                                               Indices(rn.processList), "arrival"))),
               !.processList = WithRunState(@),
               !.currentTime = F64Zero,
               !.i = 0,
               !.broke = FALSE]

\* Lines 458-465: the for loop's body on plist_sorted[i]
round_robin_scan64(rn) ==
    LET k == rn.plist_sorted[rn.i]
        p == rn.processList[k]
        exec_time == F64Min(rn.quantum, p.remaining)
        seg_start == rn.currentTime
        seg_finish == F64Add(rn.currentTime, exec_time)
    IN  IF ~F64Less(rn.currentTime, p.arrival) /\ F64Less(F64Zero, p.remaining)
        THEN [rn EXCEPT !.currentTime = seg_finish,
                        !.processList[k].remaining = F64Sub(@, exec_time),
                        !.processList[k].segments =
                            Append(@, [start |-> seg_start, end |-> seg_finish]),
                        !.executed_in_round = TRUE,
                        !.i = @ + 1]
        ELSE [rn EXCEPT !.i = @ + 1]

\* Lines 466-472: after the for loop
round_robin_end_pass64(rn) ==
    LET plist == rn.processList
        next_arrivals == SelectSeq(rn.plist_sorted, LAMBDA k :
                            /\ F64Less(rn.currentTime, plist[k].arrival)
                            /\ F64Less(F64Zero, plist[k].remaining))
        first == MinBy(next_arrivals,
                       Rank64(Keys(plist, next_arrivals, "arrival")))
    IN  IF ~rn.executed_in_round
        THEN IF next_arrivals # <<>>
             THEN [rn EXCEPT !.currentTime = plist[first].arrival, !.i = 0]
             ELSE [rn EXCEPT !.broke = TRUE, !.i = 0]
        ELSE [rn EXCEPT !.i = 0]

\* Lines 474-485
FlattenSorted64(plist, list) ==
    LET sched == FlattenFrom(plist, list, 1)
    IN  SortedBy(sched, Rank64([j \in 1..Len(sched) |-> sched[j].start]))

\* Lines 591-596: the quantum Round Robin runs with
NormalQuantum64(text) ==
    IF FloatRaises(text) THEN F64One
    ELSE IF ~F64Less(F64Zero, Float64(text)) THEN F64One
    ELSE Float64(text)

\* Lines 344-352 and 590-597 on a table of decimal texts, Round Robin being
\* selected, up to the head of the while loop
Started64(rn, tbl, quantumText) ==
    IF GatherRaises(tbl)
    THEN [rn EXCEPT !.pc = "ValueError"]
    ELSE round_robin_enter64([rn EXCEPT !.processList = GatherProcessList64(tbl),
                                        !.quantumText = quantumText,
                                        !.calls = 1],
                             NormalQuantum64(quantumText))

Rr64BeginPass ==
    /\ run.pc = "round_robin_schedule"
    /\ run.i = 0
    /\ ~run.broke
    /\ AnyRemaining64(run.processList)
    /\ run' = round_robin_begin_pass(run)
    /\ UNCHANGED <<alg, columns, table, processCount>>

Rr64Scan ==
    /\ run.pc = "round_robin_schedule"
    /\ run.i \in 1..Len(run.plist_sorted)
    /\ run' = round_robin_scan64(run)
    /\ UNCHANGED <<alg, columns, table, processCount>>

Rr64EndPass ==
    /\ run.pc = "round_robin_schedule"
    /\ run.i = Len(run.plist_sorted) + 1
    /\ run' = round_robin_end_pass64(run)
    /\ UNCHANGED <<alg, columns, table, processCount>>

Rr64Return ==
    /\ run.pc = "round_robin_schedule"
    /\ run.i = 0
    /\ run.broke \/ ~AnyRemaining64(run.processList)
    /\ run' = Return(run, FlattenSorted64(run.processList, run.plist_sorted))
    /\ UNCHANGED <<alg, columns, table, processCount>>

RoundRobin64Step == Rr64BeginPass \/ Rr64Scan \/ Rr64EndPass \/ Rr64Return

\* Start Scheduling has just been clicked with Round Robin selected, on a
\* table of at most SmallRows rows with their default names whose arrival
\* and burst cells hold decimal texts, the quantum field holding a decimal
\* text or no number; the policy runs until it returns.
InitRoundRobin64 ==
    /\ alg = "Round Robin"
    /\ columns = ColumnsFor(alg)
    /\ \E n \in 0..SmallRows :
          /\ processCount = n
          /\ \E as \in [1..n -> DecimalTexts(0, SmallArrival)],
                bs \in [1..n -> DecimalTexts(0, MaxTenths)] :
                table = [r \in 1..n |-> <<DefaultName(r), as[r], bs[r]>>]
    /\ \E q \in DecimalTexts(0, MaxQuantumTenths) \cup {Junk} :
          run = Started64(IdleRun, table, q)

SpecRoundRobin64 == InitRoundRobin64 /\ [][RoundRobin64Step]_vars

\* ========================================================== the properties
\* A policy has returned: run.schedule is its result, and run.processList is
\* the list it was given, as it left it.
Returned == run.pc = "gantt"

PolicyPcs == {"fcfs_schedule", "sjf_non_preemptive_schedule",
              "sjf_preemptive_schedule", "priority_schedule", "rms_schedule",
              "edf_schedule", "round_robin_schedule"}

InPolicy == run.pc \in PolicyPcs

AllBurstsPositive ==
    \A k \in 1..Len(run.processList) : run.processList[k].burst > 0

\* Under Spec the names of the rows are the default names, which differ from
\* row to row, so that the segments a process owns are those with its name.
NamesDistinct ==
    \A j, k \in 1..Len(table) : table[j][1] = table[k][1] => j = k

RECURSIVE OwnedDurationFrom(_, _, _)
OwnedDurationFrom(schedule, name, j) ==
    IF j > Len(schedule) THEN 0
    ELSE (IF schedule[j].name = name
          THEN schedule[j].finish - schedule[j].start ELSE 0)
         + OwnedDurationFrom(schedule, name, j + 1)

OwnedDuration(schedule, name) == OwnedDurationFrom(schedule, name, 1)

\* C1: conservation -- when a policy has returned for a list of processes
\* with burst > 0 (any positive real), the durations of the segments of
\* each process sum to its burst.
C1_Conservation ==
    Returned /\ AllBurstsPositive =>
        \A k \in 1..Len(run.processList) :
            OwnedDuration(run.schedule, run.processList[k].name)
                = run.processList[k].burst

\* Conservation does hold of every policy but SJF preemptive, and of SJF
\* preemptive when every burst is a whole number of time units.
ConservationOfWholeUnits ==
    /\ Returned
    /\ AllBurstsPositive
    /\ alg = "SJF (Preemptive)" =>
          \A k \in 1..Len(run.processList) :
              run.processList[k].burst % TicksPerUnit = 0
    => \A k \in 1..Len(run.processList) :
            OwnedDuration(run.schedule, run.processList[k].name)
                = run.processList[k].burst

\* C2: no overlap -- in the returned segments sorted by start, each segment
\* finishes no later than the next one starts.
C2_NoOverlap ==
    Returned =>
        LET s == SortedBy(run.schedule,
                          [j \in 1..Len(run.schedule) |-> run.schedule[j].start])
        IN  \A j \in 1..(Len(s) - 1) : s[j].finish <= s[j + 1].start

\* No overlap does hold when no burst is negative.
NoOverlapOfNonNegativeBursts ==
    Returned /\ (\A k \in 1..Len(run.processList) : run.processList[k].burst >= 0) =>
        LET s == SortedBy(run.schedule,
                          [j \in 1..Len(run.schedule) |-> run.schedule[j].start])
        IN  \A j \in 1..(Len(s) - 1) : s[j].finish <= s[j + 1].start

\* C3: causality -- every returned segment starts no earlier than the
\* arrival of the process that owns it.
C3_Causality ==
    Returned =>
        \A j \in 1..Len(run.schedule) : \A k \in 1..Len(run.processList) :
            run.processList[k].name = run.schedule[j].name =>
                run.schedule[j].start >= run.processList[k].arrival

\* A returned schedule of two or more segments in which a process that
\* arrived after time 0 starts exactly at its arrival.
C3_Witness ==
    /\ Returned
    /\ Len(run.schedule) >= 2
    /\ \E j \in 1..Len(run.schedule) : \E k \in 1..Len(run.processList) :
          /\ run.processList[k].name = run.schedule[j].name
          /\ run.processList[k].arrival > 0
          /\ run.schedule[j].start = run.processList[k].arrival

\* C4: the returned sequence is in non-decreasing order of start.
C4_SortedByStart ==
    Returned =>
        \A j \in 1..(Len(run.schedule) - 1) :
            run.schedule[j].start <= run.schedule[j + 1].start

\* The order does hold when no burst is negative.
SortedByStartOfNonNegativeBursts ==
    Returned /\ (\A k \in 1..Len(run.processList) : run.processList[k].burst >= 0) =>
        \A j \in 1..(Len(run.schedule) - 1) :
            run.schedule[j].start <= run.schedule[j + 1].start

\* C5: termination -- a policy running on processes with arrival >= 0 and
\* burst > 0 (Round Robin: with its quantum > 0) returns.
C5_Termination == (InPolicy /\ AllBurstsPositive) ~> Returned

\* A policy has returned for processes with positive bursts none of which
\* had arrived at time 0, so that the run began with the idle advance.
C5_Witness ==
    /\ Returned
    /\ AllBurstsPositive
    /\ Len(run.processList) >= 2
    /\ \A k \in 1..Len(run.processList) : run.processList[k].arrival > 0
    /\ Len(run.schedule) >= 2

\* C6 as claimed: with the selection not one of the seven algorithms, no
\* schedule is produced.
C6_InvalidAlgorithmRejected ==
    alg \notin Algorithms => ~Returned /\ ~InPolicy

\* C7: a process with burst <= 0 contributes no segment.
C7_NoSegmentForNonPositiveBurst ==
    Returned =>
        \A k \in 1..Len(run.processList) :
            run.processList[k].burst <= 0 =>
                \A j \in 1..Len(run.schedule) :
                    run.schedule[j].name # run.processList[k].name

\* C8: every returned segment has finish > start.
C8_PositiveLength ==
    Returned =>
        \A j \in 1..Len(run.schedule) :
            run.schedule[j].finish > run.schedule[j].start

\* Segments do have positive length when every burst is positive.
PositiveLengthOfPositiveBursts ==
    Returned /\ AllBurstsPositive =>
        \A j \in 1..Len(run.schedule) :
            run.schedule[j].finish > run.schedule[j].start

\* C9: after a policy returns, every input process record has exactly the
\* fields and values it was gathered with.
C9_InputUnchanged ==
    Returned => run.processList = GatherProcessList(table, Len(columns), alg)

\* C10: a second call of the policy on the very records the first call was
\* given returns the segment sequence the first call returned.
C10_Determinism ==
    Returned /\ run.calls = 2 => run.schedule = run.prior

\* SJF preemptive has been run twice on the same records and returned a
\* schedule in which some process was preempted.
C10_Witness ==
    /\ Returned
    /\ run.calls = 2
    /\ alg = "SJF (Preemptive)"
    /\ Len(run.schedule) > Len(run.processList)

\* The number of steps within which every call of the model returns.
Fuel == 200

\* C11: for each algorithm, Start Scheduling on an empty table raises no
\* error, the policy called returns at its first step, and what it returns
\* is the empty sequence.
C11_EmptyInput ==
    run.pc # "ui" /\ table = <<>> =>
        /\ run.pc # "ValueError"
        /\ InPolicy => /\ RunToEnd(run, 1).pc = "gantt"
                       /\ RunToEnd(run, 1).schedule = <<>>
        /\ Returned => run.schedule = <<>>

\* Round Robin has returned for the empty table.
C11_Witness ==
    /\ Returned
    /\ table = <<>>
    /\ alg = "Round Robin"

\* The positions of the segments of the process called name
SegmentsOf(schedule, name) ==
    {j \in 1..Len(schedule) : schedule[j].name = name}

\* C12: what FCFS, SJF non-preemptive, Priority Scheduling, RMS and EDF
\* return has as many segments as there are processes, one for each
\* process, and that segment runs the process in one piece, from its start
\* for the whole of its burst.
C12_OneSegmentEach ==
    Returned /\ alg \notin PreemptiveAlgorithms =>
        /\ Len(run.schedule) = Len(run.processList)
        /\ \A k \in 1..Len(run.processList) :
              LET own == SegmentsOf(run.schedule, run.processList[k].name)
              IN  /\ Cardinality(own) = 1
                  /\ \A j \in own :
                        run.schedule[j].finish
                            = run.schedule[j].start + run.processList[k].burst

\* SJF non-preemptive has returned; the process it ran first was still
\* running when a process with a smaller burst arrived.
C12_Witness ==
    /\ Returned
    /\ alg = "SJF (Non Preemptive)"
    /\ Len(run.schedule) >= 2
    /\ \E k \in 1..Len(run.processList) :
          /\ run.processList[k].arrival > run.schedule[1].start
          /\ run.processList[k].arrival < run.schedule[1].finish
          /\ run.processList[k].burst < run.schedule[1].burst

\* C13: Round Robin runs with the quantum 1.0 when the quantum field holds
\* no number (it is empty or holds other text) or a number <= 0, and with
\* the number the field holds when that is > 0: every segment it returns
\* is one quantum long, but for the last segment of a process, which may
\* be shorter.
C13_QuantumNormalised ==
    alg = "Round Robin" /\ (InPolicy \/ Returned) =>
        LET text    == run.quantumText
            quantum == IF ~text.num \/ text.val <= 0 THEN TicksPerUnit
                       ELSE text.val
        IN  /\ run.quantum = quantum
            /\ Returned =>
                  \A j \in 1..Len(run.schedule) :
                      LET length == run.schedule[j].finish - run.schedule[j].start
                          later  == {n \in SegmentsOf(run.schedule, run.schedule[j].name) :
                                        n > j}
                      IN  \/ length = quantum
                          \/ later = {} /\ length > 0 /\ length < quantum

\* Round Robin has returned two segments or more with a number <= 0 in the
\* quantum field.
C13_Witness ==
    /\ Returned
    /\ alg = "Round Robin"
    /\ run.quantumText.num
    /\ run.quantumText.val <= 0
    /\ Len(run.schedule) >= 2

\* The algorithms with a fourth column
KeyedAlgorithms == {"Priority Scheduling", "RMS", "EDF"}

\* The table with the text of arrival + burst typed into every fourth cell
\* that holds no number.
KeyDefaulted(tbl) ==
    [r \in 1..Len(tbl) |->
        IF Len(tbl[r]) >= 4 /\ FloatRaises(tbl[r][4])
        THEN [tbl[r] EXCEPT ![4] = Num(Float(tbl[r][2]) + Float(tbl[r][3]))]
        ELSE tbl[r]]

\* C14: what Priority Scheduling, RMS and EDF return for a table in which
\* some priority, period or deadline cells hold no number is what they
\* return for the table with arrival + burst in those cells.
C14_KeyDefaultsToArrivalPlusBurst ==
    Returned /\ alg \in KeyedAlgorithms =>
        run.schedule
            = RunToEnd(Started(IdleRun, KeyDefaulted(table), Len(columns), alg,
                               run.quantumText, run.orderText), Fuel).schedule

\* Priority Scheduling has returned for a table whose second row has no
\* number in its priority cell, and has run that row's process first.
C14_Witness ==
    /\ Returned
    /\ alg = "Priority Scheduling"
    /\ Len(table) >= 2
    /\ FloatRaises(table[2][4])
    /\ run.schedule[1].name = table[2][1]

\* C15: Start Scheduling on a table with text that is no number in an
\* arrival or burst cell does not fail: the row is parsed with 0.0 for
\* that cell, and the policy runs on it.
C15_MalformedParsedAsZero ==
    /\ run.pc # "ValueError"
    /\ run.pc # "ui" =>
          /\ Len(run.processList) = Len(table)
          /\ \A r \in 1..Len(table) :
                /\ FloatRaises(table[r][2]) => run.processList[r].arrival = 0
                /\ FloatRaises(table[r][3]) => run.processList[r].burst = 0

\* C16: Priority Scheduling with no text, or a text that is neither
\* "Greater Priority First" nor "Smaller Priority First", as the priority
\* order runs with Smaller Priority First, and returns what it returns for
\* the same table with "Smaller Priority First" selected.
C16_OrderDefaultsToSmallerFirst ==
    alg = "Priority Scheduling" /\ run.orderText \notin PriorityOrders =>
        /\ InPolicy \/ Returned => run.order = "Smaller Priority First"
        /\ Returned =>
              run.schedule
                  = RunToEnd(Started(IdleRun, table, Len(columns), alg,
                                     run.quantumText, "Smaller Priority First"),
                             Fuel).schedule

\* Priority Scheduling has returned, with no text as the priority order,
\* for two processes that arrived at 0, the one with the smaller priority
\* value second in the table and first in the schedule.
C16_Witness ==
    /\ Returned
    /\ alg = "Priority Scheduling"
    /\ run.orderText = ""
    /\ Len(run.processList) >= 2
    /\ run.processList[1].arrival = 0
    /\ run.processList[2].arrival = 0
    /\ run.processList[2].priority < run.processList[1].priority
    /\ run.schedule[1].name = run.processList[2].name

RECURSIVE Sum(_)
Sum(s) == IF s = <<>> THEN 0 ELSE Head(s) + Sum(Tail(s))

\* The processes of plist called name, as positions of plist
Called(plist, name) == {k \in 1..Len(plist) : plist[k].name = name}

\* The bursts of the processes of plist called name, added up
BurstsCalled(plist, name) ==
    Sum([k \in 1..Len(plist) |-> IF plist[k].name = name THEN plist[k].burst ELSE 0])

\* The time the segments the dict p collected for itself (p['segments'])
\* add up to
RunTime(p) ==
    Sum([n \in 1..Len(p.segments) |-> p.segments[n].end - p.segments[n].start])

\* C18 on one returned call: of the processes with positive bursts that
\* share their name, each has segments of its own, which add up to its
\* burst.  In the schedule the segments of the namesakes are as many as the
\* namesakes or more and add up to their bursts; and the segments SJF
\* preemptive and Round Robin collect in the dict of each add up to its
\* own burst.
DuplicatesDistinct ==
    \A k \in 1..Len(run.processList) :
        LET p     == run.processList[k]
            group == Called(run.processList, p.name)
        IN  Cardinality(group) >= 2 =>
              /\ Cardinality(SegmentsOf(run.schedule, p.name)) >= Cardinality(group)
              /\ OwnedDuration(run.schedule, p.name)
                    = BurstsCalled(run.processList, p.name)
              /\ alg \in PreemptiveAlgorithms => RunTime(p) = p.burst

\* C18: processes that share a name are scheduled as distinct entities by
\* every algorithm.
C18_DuplicateNamesDistinct ==
    Returned /\ AllBurstsPositive => DuplicatesDistinct

\* C18 does hold when SJF preemptive is given whole numbers of time units
\* only (see C1).
DuplicateNamesDistinctOfWholeUnits ==
    /\ Returned
    /\ AllBurstsPositive
    /\ alg = "SJF (Preemptive)" =>
          \A k \in 1..Len(run.processList) :
              run.processList[k].burst % TicksPerUnit = 0
    => DuplicatesDistinct

\* A table row of an algorithm without fourth column: process P<n> with
\* the given arrival and burst, in time units.
Row(n, arrival, burst) ==
    <<DefaultName(n), Num(arrival * TicksPerUnit), Num(burst * TicksPerUnit)>>

\* What algorithm a returns for the table tbl, as <<n, start, finish>>
\* triples in time units' ticks.
ScheduleOf(a, tbl) ==
    LET sched == RunToEnd(Started(IdleRun, tbl, Len(ColumnsFor(a)), a, Junk,
                                  "Smaller Priority First"), Fuel).schedule
    IN  [j \in 1..Len(sched) |->
            <<sched[j].name[2], sched[j].start, sched[j].finish>>]

\* The spec's scenario A: FCFS on P1(0, 4), P2(1, 3) gives P1 0-4, P2 4-7.
ScenarioA ==
    ScheduleOf("FCFS", <<Row(1, 0, 4), Row(2, 1, 3)>>)
        = << <<1, 0, 4 * TicksPerUnit>>,
             <<2, 4 * TicksPerUnit, 7 * TicksPerUnit>> >>

\* The row of the table the segment seg belongs to (the names of the rows
\* differ).
RowOf(seg) == CHOOSE k \in 1..Len(run.processList) :
                 run.processList[k].name = seg.name

\* C19: FCFS returns one segment per process, in non-decreasing order of
\* arrival and, for equal arrivals, in the order of the table; each
\* segment starts at the later of the finish of the segment before it (0
\* for the first) and the arrival of its process, and lasts its burst.
C19_FcfsOrder ==
    /\ ScenarioA
    /\ Returned /\ alg = "FCFS" =>
          LET s == run.schedule
          IN  /\ Len(s) = Len(run.processList)
              /\ \A j \in 1..Len(s) :
                    LET p == run.processList[RowOf(s[j])]
                    IN  /\ s[j].arrival = p.arrival
                        /\ s[j].start = Max(IF j = 1 THEN 0 ELSE s[j - 1].finish,
                                            p.arrival)
                        /\ s[j].finish = s[j].start + p.burst
              /\ \A j \in 1..(Len(s) - 1) :
                    \/ s[j].arrival < s[j + 1].arrival
                    \/ /\ s[j].arrival = s[j + 1].arrival
                       /\ RowOf(s[j]) < RowOf(s[j + 1])

\* FCFS has returned, having run the second row, which arrived first,
\* before the first row, and the first row from the finish of the second.
C19_Witness ==
    /\ Returned
    /\ alg = "FCFS"
    /\ Len(run.schedule) = 2
    /\ run.schedule[1].name = run.processList[2].name
    /\ run.schedule[2].start = run.schedule[1].finish
    /\ run.schedule[2].start > run.schedule[2].arrival

\* The spec's scenario B: SJF non-preemptive on P1(0, 8), P2(1, 4),
\* P3(2, 9), P4(3, 5) gives P1 0-8, P2 8-12, P4 12-17, P3 17-26.
ScenarioB ==
    ScheduleOf("SJF (Non Preemptive)",
               <<Row(1, 0, 8), Row(2, 1, 4), Row(3, 2, 9), Row(4, 3, 5)>>)
        = << <<1, 0, 8 * TicksPerUnit>>,
             <<2, 8 * TicksPerUnit, 12 * TicksPerUnit>>,
             <<4, 12 * TicksPerUnit, 17 * TicksPerUnit>>,
             <<3, 17 * TicksPerUnit, 26 * TicksPerUnit>> >>

\* C20: in what SJF non-preemptive returns, segment j is a dispatch: the
\* processes unscheduled at it are those of the segments from j on, the
\* clock is the finish of the segment before (0 at first), moved on to the
\* earliest arrival among the unscheduled when none of them has arrived.
\* The process dispatched has arrived, starts at that clock, and among the
\* unscheduled that have arrived has the least burst and, of those with the
\* least burst, the first place in the table.
C20_SjfNpDispatch ==
    /\ ScenarioB
    /\ Returned /\ alg = "SJF (Non Preemptive)" =>
          LET s == run.schedule
          IN  /\ Len(s) = Len(run.processList)
              /\ \A j \in 1..Len(s) :
                    LET before  == IF j = 1 THEN 0 ELSE s[j - 1].finish
                        arrived == {m \in j..Len(s) : s[m].arrival <= before}
                        clock   == IF arrived # {} THEN before
                                   ELSE CHOOSE t \in {s[m].arrival : m \in j..Len(s)} :
                                          \A m \in j..Len(s) : t <= s[m].arrival
                    IN  /\ s[j].arrival <= clock
                        /\ s[j].start = clock
                        /\ \A m \in (j + 1)..Len(s) :
                              s[m].arrival <= clock =>
                                  \/ s[j].burst < s[m].burst
                                  \/ /\ s[j].burst = s[m].burst
                                     /\ RowOf(s[j]) < RowOf(s[m])

\* SJF non-preemptive has returned for two processes with the same
\* positive burst that had both arrived at 0.
C20_Witness ==
    /\ Returned
    /\ alg = "SJF (Non Preemptive)"
    /\ Len(run.processList) = 2
    /\ run.processList[1].arrival = 0
    /\ run.processList[2].arrival = 0
    /\ run.processList[1].burst > 0
    /\ run.processList[1].burst = run.processList[2].burst
    /\ run.schedule[1].name = run.processList[1].name

\* The clock at which segment j of the schedule s of a non-preemptive
\* policy was dispatched: the finish of the segment before it (0 at first),
\* moved on to the earliest arrival among the processes of the segments
\* from j on when none of them has arrived.
DispatchClock(s, j) ==
    LET before  == IF j = 1 THEN 0 ELSE s[j - 1].finish
        arrived == {m \in j..Len(s) : s[m].arrival <= before}
    IN  IF arrived # {} THEN before
        ELSE CHOOSE t \in {s[m].arrival : m \in j..Len(s)} :
               \A m \in j..Len(s) : t <= s[m].arrival

\* Segment j of the schedule s is a dispatch by the key keys[j] of the
\* process of segment j, the least when sign is 1 and the greatest when
\* sign is -1: its process has arrived at the clock, it starts at the clock
\* and lasts the whole burst, and of the processes of the later segments
\* that have arrived, none has a better key, and none with the same key
\* stands before it in the table.
IsDispatch(s, j, keys, sign) ==
    LET clock == DispatchClock(s, j)
    IN  /\ s[j].arrival <= clock
        /\ s[j].start = clock
        /\ s[j].finish = clock + s[j].burst
        /\ \A m \in (j + 1)..Len(s) :
              s[m].arrival <= clock =>
                  \/ sign * keys[j] < sign * keys[m]
                  \/ /\ keys[j] = keys[m]
                     /\ RowOf(s[j]) < RowOf(s[m])

\* The values the processes of the segments of run.schedule have under the
\* key field of their dicts.
KeysOfSchedule(field) ==
    [j \in 1..Len(run.schedule) |->
        run.processList[RowOf(run.schedule[j])][field]]

\* C21: in what Priority Scheduling returns every segment is a dispatch of
\* the process with the least priority value among the unscheduled that
\* have arrived under Smaller Priority First, and with the greatest under
\* Greater Priority First; under both orders, of the processes tied on it
\* the first of the table is dispatched.
C21_PriorityDispatch ==
    Returned /\ alg = "Priority Scheduling" =>
        /\ Len(run.schedule) = Len(run.processList)
        /\ \A j \in 1..Len(run.schedule) :
              IsDispatch(run.schedule, j, KeysOfSchedule("priority"),
                         IF run.order = "Smaller Priority First" THEN 1
                         ELSE 0 - 1)

\* Priority Scheduling has returned under Greater Priority First for two
\* processes that had both arrived at 0 with the same priority.
C21_Witness ==
    /\ Returned
    /\ alg = "Priority Scheduling"
    /\ run.order = "Greater Priority First"
    /\ Len(run.processList) = 2
    /\ run.processList[1].arrival = 0
    /\ run.processList[2].arrival = 0
    /\ run.processList[1].priority = run.processList[2].priority
    /\ run.schedule[1].name = run.processList[1].name

\* C22: in what RMS returns every segment is a dispatch of the process
\* with the shortest period among the unscheduled that have arrived, the
\* first of the table among those tied on it, and runs that process in
\* one piece for the whole of its burst.
C22_RmsDispatch ==
    Returned /\ alg = "RMS" =>
        /\ Len(run.schedule) = Len(run.processList)
        /\ \A j \in 1..Len(run.schedule) :
              IsDispatch(run.schedule, j, KeysOfSchedule("period"), 1)

\* RMS has returned for two processes that had both arrived at 0, having
\* run the second row, of the shorter period and the longer burst, first
\* and for its whole burst.
C22_Witness ==
    /\ Returned
    /\ alg = "RMS"
    /\ Len(run.processList) = 2
    /\ run.processList[1].arrival = 0
    /\ run.processList[2].arrival = 0
    /\ run.processList[2].period < run.processList[1].period
    /\ run.processList[2].burst > run.processList[1].burst
    /\ run.schedule[1].name = run.processList[2].name
    /\ run.schedule[1].finish = run.processList[2].burst

\* A table row of an algorithm with a fourth column: process P<n> with the
\* given arrival, burst and priority, period or deadline, in time units.
Row4(n, arrival, burst, key) ==
    <<DefaultName(n), Num(arrival * TicksPerUnit), Num(burst * TicksPerUnit),
      Num(key * TicksPerUnit)>>

\* The spec's scenario D: EDF on two processes with arrival 0 and deadline
\* 5 runs them in the order of the table, whichever of the two stands
\* first in it.
ScenarioD ==
    /\ ScheduleOf("EDF", <<Row4(1, 0, 2, 5), Row4(2, 0, 3, 5)>>)
          = << <<1, 0, 2 * TicksPerUnit>>,
               <<2, 2 * TicksPerUnit, 5 * TicksPerUnit>> >>
    /\ ScheduleOf("EDF", <<Row4(2, 0, 3, 5), Row4(1, 0, 2, 5)>>)
          = << <<2, 0, 3 * TicksPerUnit>>,
               <<1, 3 * TicksPerUnit, 5 * TicksPerUnit>> >>

\* C23: in what EDF returns every segment is a dispatch of the process
\* with the earliest deadline among the unscheduled that have arrived, the
\* first of the table among those tied on it; and scenario D comes out in
\* the order of its input, both ways round.
C23_EdfDispatch ==
    /\ ScenarioD
    /\ Returned /\ alg = "EDF" =>
          /\ Len(run.schedule) = Len(run.processList)
          /\ \A j \in 1..Len(run.schedule) :
                IsDispatch(run.schedule, j, KeysOfSchedule("deadline"), 1)

\* EDF has returned for two processes that had both arrived at 0 with the
\* same deadline and different bursts, the first row first.
C23_Witness ==
    /\ Returned
    /\ alg = "EDF"
    /\ Len(run.processList) = 2
    /\ run.processList[1].arrival = 0
    /\ run.processList[2].arrival = 0
    /\ run.processList[1].deadline = run.processList[2].deadline
    /\ run.processList[1].burst # run.processList[2].burst
    /\ run.schedule[1].name = run.processList[1].name

\* The processes of the call rn with unmet demand, as positions of
\* processList: those FCFS has not come to, those the other non-preemptive
\* policies have not scheduled, those with remaining > 0 in SJF preemptive
\* and Round Robin.
Unmet(rn) ==
    CASE rn.pc = "fcfs_schedule" ->
           {rn.plist_sorted[n] : n \in rn.i..Len(rn.plist_sorted)}
      [] rn.pc \in {"sjf_non_preemptive_schedule", "priority_schedule",
                    "rms_schedule"} -> Range(rn.unscheduled)
      [] rn.pc = "edf_schedule" -> Range(rn.plist_sorted)
      [] rn.pc \in {"sjf_preemptive_schedule", "round_robin_schedule"} ->
           {k \in 1..Len(rn.processList) : rn.processList[k].remaining > 0}
      [] OTHER -> {}

\* The processes with unmet demand that have arrived
Arrived(rn) ==
    {k \in Unmet(rn) : rn.processList[k].arrival <= rn.currentTime}

NoneAvailable(rn) == Unmet(rn) # {} /\ Arrived(rn) = {}

\* The smallest arrival among the processes with unmet demand
EarliestUnmet(rn) ==
    CHOOSE t \in {rn.processList[k].arrival : k \in Unmet(rn)} :
        \A k \in Unmet(rn) : t <= rn.processList[k].arrival

\* The segments the call rn has produced so far
Produced(rn) ==
    IF rn.pc \in {"sjf_preemptive_schedule", "round_robin_schedule"}
    THEN [k \in 1..Len(rn.processList) |-> rn.processList[k].segments]
    ELSE rn.sched

\* The call rn is where its policy finds out that no process is available:
\* at the head of the loop, and in Round Robin at the end of a pass that
\* ran nothing.
FindsNoneAvailable(rn) ==
    /\ NoneAvailable(rn)
    /\ rn.pc = "round_robin_schedule" =>
          rn.i = Len(rn.plist_sorted) + 1 /\ ~rn.executed_in_round

\* The step from before to after is an idle step: the clock goes to the
\* smallest arrival among the processes with unmet demand, no segment is
\* produced, and one of these processes is available after it.
IsIdleStep(before, after) ==
    /\ after.currentTime = EarliestUnmet(before)
    /\ Produced(after) = Produced(before)
    /\ Arrived(after) # {}

\* The step from before to after of a policy that moves the clock and
\* dispatches in one iteration of its loop: the one segment it produces
\* starts at the smallest arrival among the processes with unmet demand,
\* and its process has arrived by then.
IdlesThenDispatches(before, after) ==
    /\ Len(after.sched) = Len(before.sched) + 1
    /\ SubSeq(after.sched, 1, Len(before.sched)) = before.sched
    /\ after.sched[Len(after.sched)].start = EarliestUnmet(before)
    /\ after.sched[Len(after.sched)].arrival <= EarliestUnmet(before)

\* C24: in every policy, when no process with unmet demand has arrived the
\* clock goes to the smallest arrival among the processes with unmet
\* demand, with no segment produced on the way, and a process is available
\* there: in SJF preemptive and Round Robin by a step of its own, in the
\* non-preemptive policies within the iteration whose segment then starts
\* at that arrival.  No other step of a policy moves the clock without
\* producing a segment, and a Round Robin scan that finds none available
\* runs nothing.  The policy does take that step: it does not stay where
\* it is.
C24_IdleStep ==
    /\ [](InPolicy /\ FindsNoneAvailable(run) => StepOf(run) # run)
    /\ [][InPolicy /\ run'.pc = run.pc =>
            /\ FindsNoneAvailable(run) =>
                  IF run.pc \in {"sjf_preemptive_schedule", "round_robin_schedule"}
                  THEN IsIdleStep(run, run')
                  ELSE IdlesThenDispatches(run, run')
            /\ run'.currentTime # run.currentTime /\ Produced(run') = Produced(run) =>
                  FindsNoneAvailable(run) /\ IsIdleStep(run, run')
            /\ NoneAvailable(run) /\ ~FindsNoneAvailable(run) =>
                  /\ Produced(run') = Produced(run)
                  /\ run'.currentTime = run.currentTime
                  /\ run.i # 0 => run'.executed_in_round = run.executed_in_round
        ]_vars

\* Round Robin has returned two segments with a gap between them: the
\* processor fell idle after the first.
C24_Witness ==
    /\ Returned
    /\ alg = "Round Robin"
    /\ Len(run.schedule) = 2
    /\ run.schedule[2].start > run.schedule[1].finish

\* C25: every step of SJF preemptive that finds a process available runs
\* one process for one time unit: the process has arrived, has remaining >
\* 0, and of these has the least remaining time and, among those tied on
\* it, the first place in the table; the clock goes on by one time unit,
\* the remaining time of the process goes down by one, its last segment
\* covers the unit, and no other process changes.
C25_SjfPreemptiveUnit ==
    [][/\ run.pc = "sjf_preemptive_schedule"
       /\ run'.pc = run.pc
       /\ Arrived(run) # {}
       => \E k \in Arrived(run) :
             LET segs == run'.processList[k].segments
             IN  /\ \A m \in Arrived(run) :
                       \/ run.processList[k].remaining < run.processList[m].remaining
                       \/ /\ run.processList[k].remaining = run.processList[m].remaining
                          /\ k <= m
                 /\ run'.currentTime = run.currentTime + TicksPerUnit
                 /\ run'.processList[k].remaining
                       = run.processList[k].remaining - TicksPerUnit
                 /\ segs # <<>>
                 /\ segs[Len(segs)].start <= run.currentTime
                 /\ segs[Len(segs)].end = run'.currentTime
                 /\ \A m \in 1..Len(run.processList) :
                       m # k => run'.processList[m] = run.processList[m]
      ]_vars

\* SJF preemptive is at work on two processes: the first has run and is
\* not finished, and the second, with less remaining, has run the latest
\* time unit.
C25_Witness ==
    /\ run.pc = "sjf_preemptive_schedule"
    /\ Len(run.processList) = 2
    /\ run.processList[1].segments # <<>>
    /\ run.processList[1].remaining > 0
    /\ run.processList[2].segments # <<>>
    /\ run.processList[2].remaining < run.processList[1].remaining
    /\ run.last_proc = run.processList[2].name

\* The segments the process at position k of processList has collected
SegmentsAt(rn, k) == rn.processList[k].segments

\* The process at position k ran the time unit that ends at the clock of
\* rn: its last segment ends there.
RanLatestUnit(rn, k) ==
    /\ SegmentsAt(rn, k) # <<>>
    /\ SegmentsAt(rn, k)[Len(SegmentsAt(rn, k))].end = rn.currentTime

\* In what SJF preemptive has collected for its processes, no segment of a
\* process ends where the next segment of that process starts, every
\* segment is a whole number of time units long, and no segment of another
\* process lies within it or across one of its ends.
SegmentsMaximal(rn) ==
    \A k \in 1..Len(rn.processList) :
        LET segs == SegmentsAt(rn, k)
        IN  /\ \A n \in 1..(Len(segs) - 1) : segs[n].end < segs[n + 1].start
            /\ \A n \in 1..Len(segs) :
                  /\ segs[n].start < segs[n].end
                  /\ (segs[n].end - segs[n].start) % TicksPerUnit = 0
                  /\ \A m \in 1..Len(rn.processList) :
                        m # k =>
                          \A o \in 1..Len(SegmentsAt(rn, m)) :
                              \/ SegmentsAt(rn, m)[o].end <= segs[n].start
                              \/ SegmentsAt(rn, m)[o].start >= segs[n].end

\* C26: when SJF preemptive runs a process for a time unit, it lengthens
\* the last segment of the process if the process ran the time unit just
\* before, and opens a new segment for it otherwise; so, all along and in
\* the schedule returned, no two segments of a process are adjacent and
\* each is a run of whole time units that no other segment interrupts.
C26_Coalescing ==
    /\ [](alg = "SJF (Preemptive)" /\ (InPolicy \/ Returned) =>
            /\ SegmentsMaximal(run)
            /\ Returned =>
                  \A i, j \in 1..Len(run.schedule) :
                      run.schedule[i].name = run.schedule[j].name =>
                          run.schedule[i].finish # run.schedule[j].start)
    /\ [][/\ run.pc = "sjf_preemptive_schedule"
          /\ run'.pc = run.pc
          /\ Arrived(run) # {}
          => \E k \in Arrived(run) :
                /\ run'.processList[k].remaining < run.processList[k].remaining
                /\ SegmentsAt(run', k)
                      = IF RanLatestUnit(run, k)
                        THEN [SegmentsAt(run, k) EXCEPT
                                 ![Len(SegmentsAt(run, k))].end = run'.currentTime]
                        ELSE Append(SegmentsAt(run, k),
                                    [start |-> run.currentTime,
                                     end   |-> run'.currentTime])
         ]_vars

\* SJF preemptive has returned two segments for one process, one of them
\* longer than a time unit: the process was interrupted, and time units
\* it ran in a row were merged.
C26_Witness ==
    /\ Returned
    /\ alg = "SJF (Preemptive)"
    /\ \E k \in 1..Len(run.processList) :
          /\ Len(SegmentsAt(run, k)) = 2
          /\ \E n \in 1..2 :
                SegmentsAt(run, k)[n].end - SegmentsAt(run, k)[n].start
                    > TicksPerUnit

\* What Round Robin returns for the table tbl with the quantum (in time
\* units) in the quantum field, as <<n, start, finish>> triples.
RoundRobinOf(tbl, quantum) ==
    LET sched == RunToEnd(Started(IdleRun, tbl, Len(ColumnsFor("Round Robin")),
                                  "Round Robin", Num(quantum * TicksPerUnit),
                                  "Smaller Priority First"), Fuel).schedule
    IN  [j \in 1..Len(sched) |->
            <<sched[j].name[2], sched[j].start, sched[j].finish>>]

\* The spec's scenario C: Round Robin with quantum 2 on P1(0, 5), P2(1, 3)
\* runs P1 over [0, 2] first, and gives P1 0-2, P2 2-4, P1 4-6, P2 6-7,
\* P1 7-8 in all.
ScenarioC ==
    RoundRobinOf(<<Row(1, 0, 5), Row(2, 1, 3)>>, 2)
        = << <<1, 0, 2 * TicksPerUnit>>,
             <<2, 2 * TicksPerUnit, 4 * TicksPerUnit>>,
             <<1, 4 * TicksPerUnit, 6 * TicksPerUnit>>,
             <<2, 6 * TicksPerUnit, 7 * TicksPerUnit>>,
             <<1, 7 * TicksPerUnit, 8 * TicksPerUnit>> >>

\* The list Round Robin scans holds every process once, by arrival and,
\* for equal arrivals, in the order of the table.
ScanOrderFixed(rn) ==
    /\ Len(rn.plist_sorted) = Len(rn.processList)
    /\ Range(rn.plist_sorted) = 1..Len(rn.processList)
    /\ \A j \in 1..(Len(rn.plist_sorted) - 1) :
          LET a == rn.processList[rn.plist_sorted[j]].arrival
              b == rn.processList[rn.plist_sorted[j + 1]].arrival
          IN  a < b \/ (a = b /\ rn.plist_sorted[j] < rn.plist_sorted[j + 1])

\* C27: a pass of Round Robin takes the processes one after the other in
\* the fixed order of the arrival-sorted list; the process it comes to
\* runs if and only if it has arrived and has remaining > 0 at that
\* moment, for min(quantum, remaining) in one new segment that starts at
\* the clock.  So in what is returned no segment is longer than the
\* quantum and every segment of a process but its last is one quantum
\* long; and scenario C starts with P1 over [0, 2].
C27_RoundRobinPass ==
    /\ [](/\ ScenarioC
          /\ run.pc = "round_robin_schedule" =>
                /\ ScanOrderFixed(run)
                /\ run.i \in 0..(Len(run.plist_sorted) + 1)
          /\ Returned /\ alg = "Round Robin" =>
                \A k \in 1..Len(run.processList) :
                    \A n \in 1..Len(SegmentsAt(run, k)) :
                        LET length == SegmentsAt(run, k)[n].end
                                        - SegmentsAt(run, k)[n].start
                        IN  /\ length > 0
                            /\ length <= run.quantum
                            /\ n < Len(SegmentsAt(run, k)) => length = run.quantum)
    /\ [][/\ run.pc = "round_robin_schedule"
          /\ run.i \in 1..Len(run.plist_sorted)
          => LET k      == run.plist_sorted[run.i]
                 p      == run.processList[k]
                 length == IF run.quantum <= p.remaining THEN run.quantum
                           ELSE p.remaining
             IN  /\ run'.pc = run.pc
                 /\ run'.i = run.i + 1
                 /\ run'.plist_sorted = run.plist_sorted
                 /\ \A m \in 1..Len(run.processList) :
                       m # k => run'.processList[m] = run.processList[m]
                 /\ IF p.arrival <= run.currentTime /\ p.remaining > 0
                    THEN /\ run'.currentTime = run.currentTime + length
                         /\ run'.processList[k].remaining = p.remaining - length
                         /\ SegmentsAt(run', k)
                               = Append(SegmentsAt(run, k),
                                        [start |-> run.currentTime,
                                         end   |-> run.currentTime + length])
                    ELSE /\ run'.currentTime = run.currentTime
                         /\ run'.processList[k] = p
         ]_vars

\* Round Robin has returned, having gone round twice or more for a process
\* that arrived after 0: its first segment is one quantum long and its
\* last is shorter.
C27_Witness ==
    /\ Returned
    /\ alg = "Round Robin"
    /\ \E k \in 1..Len(run.processList) :
          LET segs == SegmentsAt(run, k)
          IN  /\ run.processList[k].arrival > 0
              /\ Len(segs) >= 2
              /\ segs[1].end - segs[1].start = run.quantum
              /\ segs[Len(segs)].end - segs[Len(segs)].start < run.quantum

\* ceil(b / q) for the binary64 values b >= 0 and q > 0: the least n with
\* b <= n * q, the multiples of q being taken as the real numbers they are.
RECURSIVE QuantaFrom(_, _, _, _)
QuantaFrom(b, q, multiple, n) ==
    IF ~F64Less(multiple, b) THEN n
    ELSE QuantaFrom(b, q, ExactAdd(multiple, q), n + 1)

Quanta(b, q) == QuantaFrom(b, q, F64Zero, 0)

\* C28: Round Robin returns every quantum a process received as a segment
\* of its own: a process with burst b owns exactly ceil(b / quantum)
\* segments, in its dict and in the schedule, also when quanta of one
\* process follow one another with nothing in between.
C28_RoundRobinNeverMerges ==
    Returned /\ alg = "Round Robin" =>
        \A k \in 1..Len(run.processList) :
            LET p == run.processList[k]
            IN  /\ Len(p.segments) = Quanta(p.burst, run.quantum)
                /\ Cardinality(SegmentsOf(run.schedule, p.name))
                      = Quanta(p.burst, run.quantum)

\* C30: SJF preemptive and Round Robin never leave their loop by the break
\* statement: when they find no process available, a process with
\* remaining > 0 is still to arrive.  So when the loop has ended, and in
\* what is returned, every process has remaining <= 0.
C30_DefensiveExitNotTaken ==
    /\ run.pc \in {"sjf_preemptive_schedule", "round_robin_schedule"} =>
          /\ ~run.broke
          /\ ~StepOf(run).broke
          /\ StepOf(run).pc = "gantt" =>
                \A k \in 1..Len(run.processList) :
                    run.processList[k].remaining <= 0
    /\ Returned /\ alg \in PreemptiveAlgorithms =>
          \A k \in 1..Len(run.processList) :
              run.processList[k].remaining <= 0

\* Round Robin has returned for two processes with positive bursts, having
\* found no process available at 0, when both were still to arrive, and
\* run each of them to its end.
C30_Witness ==
    /\ Returned
    /\ alg = "Round Robin"
    /\ Len(run.processList) = 2
    /\ \A k \in 1..2 : run.processList[k].arrival > 0
    /\ \A k \in 1..2 : run.processList[k].burst > 0
    /\ run.schedule[1].start > 0
    /\ \A k \in 1..2 : SegmentsAt(run, k) # <<>>

\* The textbook Round Robin the scan of round_robin_schedule is compared
\* with: a FIFO ready queue that a process joins at its arrival; the head
\* of the queue runs for min(quantum, remaining); a process whose quantum
\* ends with time remaining goes to the back of the queue, behind the
\* processes that arrived up to that moment.  st holds the clock, the
\* queue, the processes still to arrive (by arrival, then by place in the
\* table) and the remaining times; the result lists the turns as
\* <<name, start, finish>>.
RECURSIVE TextbookFrom(_, _, _, _)
TextbookFrom(plist, quantum, st, fuel) ==
    IF fuel = 0 \/ (st.queue = <<>> /\ st.pending = <<>>) THEN <<>>
    ELSE IF st.queue = <<>>
    THEN LET t == Max(st.time, plist[st.pending[1]].arrival)
         IN  TextbookFrom(plist, quantum,
                 [st EXCEPT !.time = t,
                            !.queue = SelectSeq(st.pending,
                                         LAMBDA k : plist[k].arrival <= t),
                            !.pending = SelectSeq(st.pending,
                                         LAMBDA k : plist[k].arrival > t)],
                 fuel - 1)
    ELSE LET p    == Head(st.queue)
             t    == st.time + Min(quantum, st.remaining[p])
             left == st.remaining[p] - Min(quantum, st.remaining[p])
         IN  << <<plist[p].name, st.time, t>> >>
             \o TextbookFrom(plist, quantum,
                    [time      |-> t,
                     queue     |-> Tail(st.queue)
                                     \o SelectSeq(st.pending,
                                            LAMBDA k : plist[k].arrival <= t)
                                     \o (IF left > 0 THEN <<p>> ELSE <<>>),
                     pending   |-> SelectSeq(st.pending,
                                      LAMBDA k : plist[k].arrival > t),
                     remaining |-> [st.remaining EXCEPT ![p] = left]],
                    fuel - 1)

\* The textbook Round Robin on the processes plist with positive bursts
Textbook(plist, quantum) ==
    LET all    == SelectSeq(Indices(plist), LAMBDA k : plist[k].burst > 0)
        sorted == SortedBy(all, Keys(plist, all, "arrival"))
    IN  TextbookFrom(plist, quantum,
            [time      |-> 0,
             queue     |-> <<>>,
             pending   |-> sorted,
             remaining |-> [k \in 1..Len(plist) |-> plist[k].burst]],
            Fuel)

\* The turns of a schedule as <<name, start, finish>>
Turns(schedule) ==
    [j \in 1..Len(schedule) |->
        <<schedule[j].name, schedule[j].start, schedule[j].finish>>]

\* Round Robin has returned a schedule other than the textbook's for the
\* processes it was given.
DiffersFromTextbook ==
    /\ Returned
    /\ alg = "Round Robin"
    /\ Turns(run.schedule) # Textbook(run.processList, run.quantum)

\* In the schedule returned, a process arrives strictly inside a segment
\* of another process.
ArrivesMidQuantum ==
    \E k \in 1..Len(run.processList), j \in 1..Len(run.schedule) :
        /\ run.schedule[j].name # run.processList[k].name
        /\ run.schedule[j].start < run.processList[k].arrival
        /\ run.processList[k].arrival < run.schedule[j].finish

\* In the schedule returned, a process arrives inside a segment of another
\* process or at its end.
ArrivesDuringQuantum ==
    \E k \in 1..Len(run.processList), j \in 1..Len(run.schedule) :
        /\ run.schedule[j].name # run.processList[k].name
        /\ run.schedule[j].start < run.processList[k].arrival
        /\ run.processList[k].arrival <= run.schedule[j].finish

\* C29: whenever a process arrives strictly inside the quantum another
\* process is running, Round Robin returns an interleaving other than that
\* of the textbook Round Robin with its FIFO ready queue.
C29_DiffersWheneverMidQuantum ==
    Returned /\ alg = "Round Robin" /\ ArrivesMidQuantum => DiffersFromTextbook

\* On P1(0, 4), P2(1, 4), P3(3, 2) with quantum 2, where P3 arrives inside
\* the first quantum of P2, the scan runs P3 over [4, 6] and the textbook
\* Round Robin P1.
ScanDiffersFromTextbook ==
    /\ RoundRobinOf(<<Row(1, 0, 4), Row(2, 1, 4), Row(3, 3, 2)>>, 2)[3]
          = <<3, 4 * TicksPerUnit, 6 * TicksPerUnit>>
    /\ Textbook(GatherProcessList(<<Row(1, 0, 4), Row(2, 1, 4), Row(3, 3, 2)>>,
                                  3, "Round Robin"), 2 * TicksPerUnit)[3]
          = <<DefaultName(1), 4 * TicksPerUnit, 6 * TicksPerUnit>>

\* C29 as amended: Round Robin returns an interleaving other than the
\* textbook's only when a process arrives inside the quantum another
\* process is running or at its end, and it does so on P1(0, 4), P2(1, 4),
\* P3(3, 2) with quantum 2.
C29_DiffersOnlyOnArrivalDuringQuantum ==
    /\ ScanDiffersFromTextbook
    /\ DiffersFromTextbook => ArrivesDuringQuantum

\* Round Robin has returned an interleaving other than the textbook's for
\* three processes, one of which arrived strictly inside a quantum of
\* another.
C29_Witness ==
    /\ DiffersFromTextbook
    /\ ArrivesMidQuantum
    /\ Len(run.processList) = 3

\* The processes of plist with unmet demand before segment j of the
\* schedule s: those the segments before j have run for less than their
\* burst.
UnmetBefore(s, plist, j) ==
    {k \in 1..Len(plist) :
        OwnedDuration(SubSeq(s, 1, j - 1), plist[k].name) < plist[k].burst}

\* The processor is left idle before segment j of the schedule s: the
\* segment starts after the finish of the segment before it (after 0 for
\* the first).
GapBefore(s, j) == s[j].start > (IF j = 1 THEN 0 ELSE s[j - 1].finish)

\* C31: in what every algorithm returns for processes with bursts > 0, a
\* gap before the first segment or between one segment and the next ends
\* at the arrival of the process that runs next, that process has unmet
\* demand, and no process with unmet demand has arrived before the end of
\* the gap (at or before its beginning, or inside it): the processor is
\* idle only when no process that has arrived has unmet demand.
C31_WorkConservation ==
    Returned /\ AllBurstsPositive =>
        \A j \in 1..Len(run.schedule) :
            GapBefore(run.schedule, j) =>
                /\ run.schedule[j].start = run.schedule[j].arrival
                /\ RowOf(run.schedule[j])
                      \in UnmetBefore(run.schedule, run.processList, j)
                /\ \A k \in UnmetBefore(run.schedule, run.processList, j) :
                      run.processList[k].arrival >= run.schedule[j].start

\* FCFS has returned for two processes with positive bursts, the second of
\* which arrived after the first had finished: the processor was idle
\* between the two segments.
C31_Witness ==
    /\ Returned
    /\ alg = "FCFS"
    /\ AllBurstsPositive
    /\ Len(run.schedule) = 2
    /\ GapBefore(run.schedule, 2)

\* The step from before to after of a non-preemptive policy moves the
\* clock forwards: the segment it appends starts at the clock the policy
\* dispatched at, which is not before the clock of before and is after it
\* when the policy had to move the clock to an arrival first; the segment
\* finishes after its start, and the clock of after is its finish.
DispatchMovesClockForwards(before, after) ==
    LET seg == after.sched[Len(after.sched)]
    IN  /\ Len(after.sched) = Len(before.sched) + 1
        /\ seg.start >= before.currentTime
        /\ NoneAvailable(before) => seg.start > before.currentTime
        /\ seg.finish > seg.start
        /\ after.currentTime = seg.finish

\* C32: while a policy runs on processes with arrival >= 0 and burst > 0,
\* no step takes the clock backwards; a step that executes a segment and a
\* step that moves the clock to the next arrival take it strictly
\* forwards.
C32_ClockMonotone ==
    [][InPolicy /\ run'.pc = run.pc /\ AllBurstsPositive =>
          /\ run'.currentTime >= run.currentTime
          /\ Produced(run') # Produced(run) => run'.currentTime > run.currentTime
          /\ FindsNoneAvailable(run) => run'.currentTime > run.currentTime
          /\ run.pc \notin {"sjf_preemptive_schedule", "round_robin_schedule"}
                => DispatchMovesClockForwards(run, run')
      ]_vars

\* SJF preemptive is running two processes with positive bursts, has moved
\* the clock to the arrival of the first to arrive and has executed it for
\* a time unit from there.
C32_Witness ==
    /\ run.pc = "sjf_preemptive_schedule"
    /\ AllBurstsPositive
    /\ Len(run.processList) = 2
    /\ \E k \in 1..2 :
          /\ run.processList[k].segments # <<>>
          /\ run.processList[k].segments[1].start > 0
          /\ run.currentTime = run.processList[k].segments[1].start + TicksPerUnit

\* Segments i and j of the schedule s are consecutive segments of one
\* process: they bear the same name, and no segment between them does.
ConsecutiveTurns(s, i, j) ==
    /\ i < j
    /\ s[i].name = s[j].name
    /\ \A m \in (i + 1)..(j - 1) : s[m].name # s[i].name

\* C33: in what Round Robin returns, between two consecutive segments of
\* one process every other process has at most one segment, and the
\* process waits at most (n - 1) quanta from the end of the one to the
\* start of the other, n being the number of processes.
C33_BoundedWaiting ==
    Returned /\ alg = "Round Robin" =>
        \A i, j \in 1..Len(run.schedule) :
            ConsecutiveTurns(run.schedule, i, j) =>
                /\ \A m, o \in (i + 1)..(j - 1) :
                      run.schedule[m].name = run.schedule[o].name => m = o
                /\ run.schedule[j].start - run.schedule[i].finish
                      <= (Len(run.processList) - 1) * run.quantum

\* Round Robin has returned for three processes, one of which waited the
\* whole of two quanta, one of each of the others, between two of its
\* turns.
C33_Witness ==
    /\ Returned
    /\ alg = "Round Robin"
    /\ Len(run.processList) = 3
    /\ \E i \in 1..Len(run.schedule) :
          /\ i + 3 <= Len(run.schedule)
          /\ ConsecutiveTurns(run.schedule, i, i + 3)
          /\ run.schedule[i + 3].start - run.schedule[i].finish = 2 * run.quantum

\* The table tbl of an algorithm without fourth column, with a fourth
\* column that repeats the text of column col.
WithKeyColumn(tbl, col) ==
    [r \in 1..Len(tbl) |-> <<tbl[r][1], tbl[r][2], tbl[r][3], tbl[r][col]>>]

\* What the greedy loop shared by the non-preemptive policies returns for
\* the table tbl when its selection key is the arrival: the loop of
\* rms_schedule, which selects by min(available, key=period), on the
\* processes of tbl with the period of each set to its arrival.
GreedyByArrival(tbl) ==
    RunToEnd(Started(IdleRun, WithKeyColumn(tbl, 2), 4, "RMS", Junk,
                     "Smaller Priority First"), Fuel).schedule

AllBurstsNonNegative ==
    \A k \in 1..Len(run.processList) : run.processList[k].burst >= 0

\* C34: for processes with burst >= 0, FCFS returns the very segments, in
\* the very order, that the greedy loop returns when it selects by arrival
\* with ties going to the first process in the order of the table.
C34_FcfsIsGreedyByArrival ==
    Returned /\ alg = "FCFS" /\ AllBurstsNonNegative =>
        run.schedule = GreedyByArrival(table)

\* FCFS has returned for two processes with bursts >= 0, having run the
\* second row, which arrived first and after 0, before the first row.
C34_Witness ==
    /\ Returned
    /\ alg = "FCFS"
    /\ AllBurstsNonNegative
    /\ Len(run.processList) = 2
    /\ 0 < run.processList[2].arrival
    /\ run.processList[2].arrival < run.processList[1].arrival
    /\ run.schedule[1].name = run.processList[2].name
    /\ GreedyByArrival(table)[1].name = run.processList[2].name

\* What SJF non-preemptive returns for the table tbl
SjfNonPreemptiveOf(tbl) ==
    RunToEnd(Started(IdleRun, tbl, Len(ColumnsFor("SJF (Non Preemptive)")),
                     "SJF (Non Preemptive)", Junk, "Smaller Priority First"),
             Fuel).schedule

\* All the processes of the call arrive at one time.
SameArrivals ==
    \A j, k \in 1..Len(run.processList) :
        run.processList[j].arrival = run.processList[k].arrival

\* The bursts of the processes are whole numbers of time units, and
\* positive.
PositiveIntegerBursts ==
    \A k \in 1..Len(run.processList) :
        /\ run.processList[k].burst > 0
        /\ run.processList[k].burst % TicksPerUnit = 0

\* C35: for processes that all arrive at one time with bursts that are
\* positive whole numbers of time units, SJF preemptive returns the very
\* sequence of segments that SJF non-preemptive returns for the same
\* table: one segment for each process, none of them preempted.
C35_SjfPreemptiveIsNonPreemptive ==
    Returned /\ alg = "SJF (Preemptive)" /\ SameArrivals /\ PositiveIntegerBursts
        => /\ run.schedule = SjfNonPreemptiveOf(table)
           /\ Len(run.schedule) = Len(run.processList)

\* SJF preemptive has returned for three processes that arrived together
\* after 0, the first of them with a burst of two time units and another
\* with a burst of one, which it ran before the first.
C35_Witness ==
    /\ Returned
    /\ alg = "SJF (Preemptive)"
    /\ SameArrivals
    /\ PositiveIntegerBursts
    /\ Len(run.processList) = 3
    /\ run.processList[1].arrival > 0
    /\ run.processList[1].burst = 2 * TicksPerUnit
    /\ run.schedule[1].burst = TicksPerUnit
    /\ run.schedule = SjfNonPreemptiveOf(table)

\* What FCFS returns for the table tbl
FcfsOf(tbl) ==
    RunToEnd(Started(IdleRun, tbl, Len(ColumnsFor("FCFS")), "FCFS", Junk,
                     "Smaller Priority First"), Fuel).schedule

\* The quantum of the call is at least the burst of every process.
QuantumCoversBursts ==
    \A k \in 1..Len(run.processList) : run.processList[k].burst <= run.quantum

\* C36: for processes with bursts > 0 none of which exceeds the quantum,
\* Round Robin returns the very sequence of segments that FCFS returns for
\* the same table.
C36_RoundRobinIsFcfs ==
    Returned /\ alg = "Round Robin" /\ AllBurstsPositive /\ QuantumCoversBursts
        => run.schedule = FcfsOf(table)

\* Round Robin has returned for two processes with different positive
\* bursts within the quantum, having run the second row, which arrived
\* first, before the first row, as FCFS does.
C36_Witness ==
    /\ Returned
    /\ alg = "Round Robin"
    /\ AllBurstsPositive
    /\ QuantumCoversBursts
    /\ Len(run.processList) = 2
    /\ run.processList[1].burst # run.processList[2].burst
    /\ run.processList[2].arrival < run.processList[1].arrival
    /\ run.schedule[1].name = run.processList[2].name
    /\ run.schedule = FcfsOf(table)

\* What RMS returns for the table tbl of four columns: the fourth cell of
\* a row is then the period of its process.
RmsOf(tbl) ==
    RunToEnd(Started(IdleRun, tbl, Len(ColumnsFor("RMS")), "RMS", Junk,
                     "Smaller Priority First"), Fuel).schedule

\* C37: EDF returns the very sequence of segments that RMS returns for the
\* same rows when the period of each process is its deadline (the same
\* fourth cell, read as period): sorting the list by deadline before the
\* loop changes nothing in the result.
C37_EdfIsRmsByDeadline ==
    Returned /\ alg = "EDF" => run.schedule = RmsOf(table)

\* EDF has returned for two processes, the second of which has the earlier
\* deadline, so that the sort puts it first, and arrives later: the first
\* row was run first, as by RMS.
C37_Witness ==
    /\ Returned
    /\ alg = "EDF"
    /\ Len(run.processList) = 2
    /\ run.processList[2].deadline < run.processList[1].deadline
    /\ run.processList[1].arrival = 0
    /\ run.processList[2].arrival > 0
    /\ run.schedule[1].name = run.processList[1].name
    /\ run.schedule = RmsOf(table)

\* The table as the buttons keep it: the counter is no less than the
\* number of rows, no two rows bear the same default name, every row has a
\* cell for every column, and there is a fourth column exactly for
\* Priority Scheduling, RMS and EDF.
TableKept ==
    /\ processCount >= Len(table)
    /\ NamesDistinct
    /\ \A r \in 1..Len(table) :
          /\ Len(table[r]) = Len(columns)
          /\ \E n \in 1..processCount : table[r][1] = DefaultName(n)
    /\ Len(columns) = 4 <=> alg \in KeyedAlgorithms
    /\ Len(columns) \in {3, 4}

\* C38: after any sequence of Add Process, Remove Process, Clear Table and
\* changes of the algorithm, processCount is at least the number of rows,
\* the default names of the rows in the table differ from one another, and
\* the table has a fourth column exactly when the algorithm is Priority
\* Scheduling, RMS or EDF.  A change of the algorithm leaves no rows and
\* processCount 0 (and the columns of the new algorithm).  Clear Table
\* does the same for the rows and the counter: the counter never goes down
\* but to 0 with the table left empty, and rows go more than one at a time
\* only with the counter left at 0.  (Remove Process takes one row and
\* leaves the counter.)
C38_TableBookkeeping ==
    /\ []TableKept
    /\ [][/\ alg' # alg =>
               /\ table' = <<>>
               /\ processCount' = 0
               /\ columns' = ColumnsFor(alg')
          /\ processCount' < processCount =>
               table' = <<>> /\ processCount' = 0
          /\ Len(table') < Len(table) - 1 =>
               table' = <<>> /\ processCount' = 0
          /\ Len(table') = Len(table) - 1 /\ table' # <<>> =>
               processCount' = processCount
       ]_vars

\* Under an algorithm with a fourth column, Add Process has added a row
\* after the first row was removed: the table holds p2 and p3, of four
\* cells each, and the counter is 3.
C38_Witness ==
    /\ alg \in KeyedAlgorithms
    /\ Len(columns) = 4
    /\ processCount = 3
    /\ Len(table) = 2
    /\ table[1][1] = DefaultName(2)
    /\ table[2][1] = DefaultName(3)
    /\ Len(table[2]) = 4

====
